---- MODULE Spec2Model ----
(***************************************************************************)
(* Verification model of the thaistock-app analysis core:                  *)
(*   modules/signals.py    calculate_signal_score, calculate_price_targets,*)
(*                         run_backtest, generate_recommendation           *)
(*   modules/indicators.py find_support_resistance,                        *)
(*                         detect_candlestick_patterns                     *)
(*   modules/scanner.py    _scan_one, _scan_intraday, run_fibonacci_scan,  *)
(*                         run_daytrade_scan                               *)
(*                                                                         *)
(* Numbers.  Indicator columns are integers.  Vol_ratio is kept in tenths  *)
(* (20 = 2.0x).  Money amounts of the stop-loss / target calculators are   *)
(* kept in thousandths of the smallest displayed unit (one "cent" = 0.01), *)
(* so that the factors 0.85, 0.98, 0.786, 1.5 ... are exact and            *)
(* round(x, 2) is rounding to a multiple of 1000.                          *)
(***************************************************************************)
EXTENDS Integers, Sequences, FiniteSets, TLC

VARIABLES
    mode,        \* which entry point of the program this behaviour runs
    df,          \* signal scorer: the indicator frame given to the call
    sc_out,      \* signal scorer: returned (score, signals, regime) or "none"
    rec_in,      \* recommendation engine: arguments of the call
    rec_out,     \* recommendation engine: returned dict
    status,      \* scanner: per submitted task, "queued" | "running" | "hung" | "finished"
    outcome,     \* scanner: per task, what the worker function returned or raised
    scan_pc,     \* scanner: the calling thread, "loop" | "returned"
    done,        \* scanner: the local counter `done`
    cb_calls,    \* scanner: the progress_callback invocations so far, in order
    results,     \* scanner: the local list `results` (task ids, in append order)
    scan_args,   \* scanner: min_fib_score / min_rr of the call
    table,       \* scanner: the returned DataFrame rows
    bt_in,       \* backtest: arguments of the call (df, strategy, capital, sl_pct)
    bt_i,        \* backtest: the loop index i of the next bar to process
    bt_pc,       \* backtest: "loop" | "returned"
    in_position, \* backtest: local in_position
    entry_price, \* backtest: local entry_price
    entry_date,  \* backtest: local entry_date (the bar of the entry)
    equity,      \* backtest: local equity, an exact fraction
    trades,      \* backtest: local list trades
    equity_curve_y, \* backtest: local list equity_curve_y, in hundredths
    bt_out,      \* backtest: returned statistics
    sl_in,       \* scanner stop loss: price, ATR, swing points, trend, scan mode
    sl_out,      \* scanner stop loss: the stop_loss of the result row
    tg_in,       \* price targets: arguments of the call
    tg_out,      \* price targets: returned dict
    mtf_pc,      \* multi-timeframe scan: "loop" | "returned"
    mtf_todo,    \* multi-timeframe scan: the (symbol, period) futures not yet yielded
    raw,         \* multi-timeframe scan: the local dict `raw`, in insertion order
    mtf_args,    \* multi-timeframe scan: min_fib_score / min_rr of the call
    mtf_table,   \* multi-timeframe scan: the returned DataFrame rows
    fib_in,      \* fib score: zone, distance, signal score, Vol_ratio and RSI columns, mode
    fib_out,     \* fib score: fib_score and grade of the result row
    bell_in,     \* bell curve: the frame (runs of closes) and the window of the call
    bell_out,    \* bell curve: the returned dict, empty, or the raised error
    pat_in,      \* pattern detector: the candle frame of the call
    pat_out      \* pattern detector: the returned list of patterns

vars == <<mode, df, sc_out, rec_in, rec_out,
          status, outcome, scan_pc, done, cb_calls, results, scan_args, table,
          bt_in, bt_i, bt_pc, in_position, entry_price, entry_date, equity, trades,
          equity_curve_y, bt_out,
          sl_in, sl_out, tg_in, tg_out,
          mtf_pc, mtf_todo, raw, mtf_args, mtf_table,
          fib_in, fib_out, bell_in, bell_out, pat_in, pat_out>>

scoreVars == <<df, sc_out>>
recVars   == <<rec_in, rec_out>>
scanVars  == <<status, outcome, scan_pc, done, cb_calls, results, scan_args, table>>
btVars    == <<bt_in, bt_i, bt_pc, in_position, entry_price, entry_date, equity, trades,
               equity_curve_y, bt_out>>
stopVars  == <<sl_in, sl_out>>
tgVars    == <<tg_in, tg_out>>
mtfVars   == <<mtf_pc, mtf_todo, raw, mtf_args, mtf_table>>
fibVars   == <<fib_in, fib_out>>
bellVars  == <<bell_in, bell_out>>
patVars   == <<pat_in, pat_out>>

(***************************************************************************)
(* Small arithmetic helpers                                                *)
(***************************************************************************)
Max2(a, b) == IF a >= b THEN a ELSE b
Min2(a, b) == IF a <= b THEN a ELSE b
Abs(a)     == IF a < 0 THEN 0 - a ELSE a

\* Python `x or d` on a number: 0 is falsy and is replaced by the default.
OrDefault(x, d) == IF x = 0 THEN d ELSE x

(***************************************************************************)
(* Indicator frame rows.  A row is a record with one field per column.     *)
(***************************************************************************)
TrendCols(c, e9, e21, e50, e200) ==
    [Close |-> c, EMA9 |-> e9, EMA21 |-> e21, EMA50 |-> e50, EMA200 |-> e200]

MomCols(rsi, macd, sig, k, d) ==
    [RSI |-> rsi, MACD |-> macd, MACD_signal |-> sig, MACD_hist |-> macd - sig,
     StochRSI_k |-> k, StochRSI_d |-> d]

VolCols(vr, obv, bbl, bbu, atr) ==
    [Vol_ratio |-> vr, OBV |-> obv, BB_lower |-> bbl, BB_upper |-> bbu, ATR |-> atr]

AdxCols(adx, dip, dim) == [ADX |-> adx, DI_plus |-> dip, DI_minus |-> dim]

\* A candle shape around the close: open = close + dOpen, wicks uw / lw.
Candle(c, dOpen, uw, lw) ==
    [Open |-> c + dOpen,
     High |-> Max2(c, c + dOpen) + uw,
     Low  |-> Min2(c, c + dOpen) - lw]

MkRow(t, m, v, a, shape) ==
    t @@ m @@ v @@ a @@ Candle(t.Close, shape[1], shape[2], shape[3])


\* variant: the trend test with ADX >= 25
get_market_regime_AtLeast25(rows) ==
    IF Len(rows) = 0 THEN "SIDEWAYS"
    ELSE LET last == rows[Len(rows)]
         IN IF OrDefault(last.ADX, 0) >= 25
            THEN IF last.Close > last.EMA200 /\ last.DI_plus > last.DI_minus THEN "BULL_TREND"
                 ELSE IF last.Close < last.EMA200 /\ last.DI_minus > last.DI_plus
                      THEN "BEAR_TREND" ELSE "TRANSITION"
            ELSE "SIDEWAYS"

(***************************************************************************)
(* modules/signals.py : get_market_regime                                  *)
(***************************************************************************)
get_market_regime(rows) ==
    IF Len(rows) = 0 THEN "SIDEWAYS"          \* df.iloc[-1] raises: except branch
    ELSE LET last     == rows[Len(rows)]
             adx      == OrDefault(last.ADX, 0)
             price    == last.Close
             ema200   == OrDefault(last.EMA200, price)
             di_plus  == OrDefault(last.DI_plus, 0)
             di_minus == OrDefault(last.DI_minus, 0)
         IN IF adx > 25
            THEN IF price > ema200 /\ di_plus > di_minus THEN "BULL_TREND"
                 ELSE IF price < ema200 /\ di_minus > di_plus THEN "BEAR_TREND"
                 ELSE "TRANSITION"
            ELSE "SIDEWAYS"

(***************************************************************************)
(* modules/indicators.py : detect_candlestick_patterns                     *)
(* Returns the sequence of detected patterns, in the order of the code.    *)
(***************************************************************************)
body(c)       == Abs(c.Close - c.Open)
upper_wick(c) == c.High - Max2(c.Close, c.Open)
lower_wick(c) == Min2(c.Close, c.Open) - c.Low
is_bull(c)    == c.Close > c.Open
is_bear(c)    == c.Close < c.Open

Pat(name, type) == [pattern |-> name, type |-> type]

detect_candlestick_patterns(rows) ==
    IF Len(rows) < 3 THEN <<>>
    ELSE LET n  == Len(rows)
             c1 == rows[n - 2]
             c2 == rows[n - 1]
             c3 == rows[n]
             If(cond, p) == IF cond THEN <<p>> ELSE <<>>
         IN    If(lower_wick(c3) > body(c3) * 2 /\ 2 * upper_wick(c3) < body(c3) /\ is_bear(c2),
                  Pat("Hammer", "BUY"))
            \o If(upper_wick(c3) > body(c3) * 2 /\ 2 * lower_wick(c3) < body(c3) /\ is_bull(c2),
                  Pat("Shooting Star", "SELL"))
            \o If(is_bear(c2) /\ is_bull(c3) /\ c3.Open < c2.Close /\ c3.Close > c2.Open,
                  Pat("Bullish Engulfing", "BUY"))
            \o If(is_bull(c2) /\ is_bear(c3) /\ c3.Open > c2.Close /\ c3.Close < c2.Open,
                  Pat("Bearish Engulfing", "SELL"))
            \o If(is_bear(c1) /\ 10 * body(c2) < 3 * body(c1) /\ is_bull(c3)
                     /\ 2 * c3.Close > c1.Open + c1.Close,
                  Pat("Morning Star", "BUY"))
            \o If(is_bull(c1) /\ 10 * body(c2) < 3 * body(c1) /\ is_bear(c3)
                     /\ 2 * c3.Close < c1.Open + c1.Close,
                  Pat("Evening Star", "SELL"))
            \* full_range = max(High - Low, 1e-9): a zero range still lets body 0 match
            \o If(IF c3.High - c3.Low > 0 THEN 10 * body(c3) < c3.High - c3.Low
                                           ELSE body(c3) = 0,
                  Pat("Doji", "NEUTRAL"))

(***************************************************************************)
(* modules/signals.py : calculate_signal_score                             *)
(* A frame is [rows |-> sequence of rows, hasOBV |-> the OBV column exists]*)
(* Every rule block is an operator from (frame) to                          *)
(* [d |-> score delta, s |-> signals appended]; a block that raises         *)
(* contributes NoEffect (its try/except swallows it).                       *)
(***************************************************************************)
Sig(type, strength, rule) == [type |-> type, strength |-> strength, rule |-> rule]
Eff(d, s)  == [d |-> d, s |-> s]
NoEffect   == Eff(0, <<>>)

LastRow(f) == f.rows[Len(f.rows)]
PrevRow(f) == f.rows[Len(f.rows) - 1]

\* lines 49-82
RuleEmaAlign(f) ==
    LET last   == LastRow(f)
        ema9   == OrDefault(last.EMA9, 0)
        ema21  == OrDefault(last.EMA21, 0)
        ema50  == OrDefault(last.EMA50, 0)
        ema200 == OrDefault(last.EMA200, 0)
        close  == last.Close
    IN IF ema9 > ema21 /\ ema21 > ema50 /\ ema50 > ema200 /\ close > ema9
       THEN Eff(15, <<Sig("BUY", "STRONG", "EMA alignment up")>>)
       ELSE IF ema9 < ema21 /\ ema21 < ema50 /\ ema50 < ema200 /\ close < ema9
       THEN Eff(0 - 15, <<Sig("SELL", "STRONG", "EMA alignment down")>>)
       ELSE IF close > ema50
       THEN Eff(7, <<Sig("BUY", "MEDIUM", "Price above EMA50")>>)
       ELSE IF close < ema50
       THEN Eff(0 - 7, <<Sig("SELL", "MEDIUM", "Price below EMA50")>>)
       ELSE NoEffect

\* lines 84-104
RuleCross(f) ==
    LET last == LastRow(f)
        prev == PrevRow(f)
        prev_ema9  == OrDefault(prev.EMA9, 0)
        prev_ema21 == OrDefault(prev.EMA21, 0)
        ema9       == OrDefault(last.EMA9, 0)
        ema21      == OrDefault(last.EMA21, 0)
    IN IF prev_ema9 < prev_ema21 /\ ema9 > ema21
       THEN Eff(12, <<Sig("BUY", "STRONG", "Golden Cross")>>)
       ELSE IF prev_ema9 > prev_ema21 /\ ema9 < ema21
       THEN Eff(0 - 12, <<Sig("SELL", "STRONG", "Death Cross")>>)
       ELSE NoEffect

\* lines 106-124: diff_pct = (Close - ema200) / ema200 * 100 compared with +-5
RuleEma200(f) ==
    LET last   == LastRow(f)
        ema200 == OrDefault(last.EMA200, last.Close)
    IN IF ema200 > 0
       THEN IF (last.Close - ema200) * 100 > 5 * ema200
            THEN Eff(8, <<Sig("BUY", "MEDIUM", "Price above EMA200")>>)
            ELSE IF (last.Close - ema200) * 100 < (0 - 5) * ema200
            THEN Eff(0 - 8, <<Sig("SELL", "MEDIUM", "Price below EMA200")>>)
            ELSE NoEffect
       ELSE NoEffect

\* lines 128-149
RuleRSI(f) ==
    LET rsi == OrDefault(LastRow(f).RSI, 50)
    IN IF rsi < 30 THEN Eff(12, <<Sig("BUY", "STRONG", "RSI oversold")>>)
       ELSE IF rsi > 70 THEN Eff(0 - 12, <<Sig("SELL", "STRONG", "RSI overbought")>>)
       ELSE IF 40 <= rsi /\ rsi <= 60 THEN Eff(0, <<Sig("NEUTRAL", "WEAK", "RSI mid zone")>>)
       ELSE NoEffect

\* lines 151-183
RuleMACD(f) ==
    LET last == LastRow(f)
        prev == PrevRow(f)
        macd     == OrDefault(last.MACD, 0)
        macd_sig == OrDefault(last.MACD_signal, 0)
        p_macd   == OrDefault(prev.MACD, 0)
        p_sig    == OrDefault(prev.MACD_signal, 0)
    IN IF p_macd < p_sig /\ macd > macd_sig
       THEN Eff(10, <<Sig("BUY", "STRONG", "MACD cross up")>>)
       ELSE IF p_macd > p_sig /\ macd < macd_sig
       THEN Eff(0 - 10, <<Sig("SELL", "STRONG", "MACD cross down")>>)
       ELSE IF macd > macd_sig /\ macd > 0
       THEN Eff(5, <<Sig("BUY", "WEAK", "MACD positive")>>)
       ELSE IF macd < macd_sig /\ macd < 0
       THEN Eff(0 - 5, <<Sig("SELL", "WEAK", "MACD negative")>>)
       ELSE NoEffect

\* lines 185-205
RuleStochRSI(f) ==
    LET last == LastRow(f)
        prev == PrevRow(f)
        k   == OrDefault(last.StochRSI_k, 50)
        d   == OrDefault(last.StochRSI_d, 50)
        p_k == OrDefault(prev.StochRSI_k, 50)
        p_d == OrDefault(prev.StochRSI_d, 50)
    IN IF p_k < p_d /\ k > d /\ k < 30
       THEN Eff(8, <<Sig("BUY", "MEDIUM", "StochRSI cross up")>>)
       ELSE IF p_k > p_d /\ k < d /\ k > 70
       THEN Eff(0 - 8, <<Sig("SELL", "MEDIUM", "StochRSI cross down")>>)
       ELSE NoEffect

\* lines 209-246: one try block holds the volume-spike rule and the OBV rule.
\* df['OBV'] raises KeyError when the column is missing and len(df) >= 10, before
\* either rule has run, so the whole block is skipped.
VolumeSpike(vol_ratio, last, prev) ==
    IF vol_ratio > 20 /\ last.Close > prev.Close
    THEN Eff(10, <<Sig("BUY", "STRONG", "Volume spike up")>>)
    ELSE IF vol_ratio > 20 /\ last.Close < prev.Close
    THEN Eff(0 - 10, <<Sig("SELL", "STRONG", "Volume spike down")>>)
    ELSE IF vol_ratio < 5
    THEN Eff(0, <<Sig("NEUTRAL", "WEAK", "Volume low")>>)
    ELSE NoEffect

ObvTrend(obv_now, obv_prev, last, prev) ==
    IF obv_now > obv_prev /\ last.Close > prev.Close
    THEN Eff(7, <<Sig("BUY", "MEDIUM", "OBV accumulation")>>)
    ELSE IF obv_now < obv_prev /\ last.Close < prev.Close
    THEN Eff(0 - 7, <<Sig("SELL", "MEDIUM", "OBV distribution")>>)
    ELSE NoEffect

RuleVolume(f) ==
    LET last == LastRow(f)
        prev == PrevRow(f)
        n    == Len(f.rows)
        vol_ratio == OrDefault(last.Vol_ratio, 10)
        obv_now   == IF f.hasOBV THEN OrDefault(last.OBV, 0) ELSE 0
    IN IF n >= 10 /\ ~f.hasOBV
       THEN NoEffect
       ELSE LET obv_prev == IF n >= 10 THEN f.rows[n - 9].OBV ELSE obv_now
                v == VolumeSpike(vol_ratio, last, prev)
                o == ObvTrend(obv_now, obv_prev, last, prev)
            IN Eff(v.d + o.d, v.s \o o.s)

\* lines 248-267: close <= bb_lower * 1.01, close >= bb_upper * 0.99
RuleBollinger(f) ==
    LET last == LastRow(f)
        bb_lower == OrDefault(last.BB_lower, 0)
        bb_upper == OrDefault(last.BB_upper, 0)
        close    == last.Close
    IN IF bb_lower > 0 /\ 100 * close <= 101 * bb_lower
       THEN Eff(5, <<Sig("BUY", "MEDIUM", "Bollinger lower")>>)
       ELSE IF bb_upper > 0 /\ 100 * close >= 99 * bb_upper
       THEN Eff(0 - 5, <<Sig("SELL", "MEDIUM", "Bollinger upper")>>)
       ELSE NoEffect

\* lines 269-283
RECURSIVE PatternEffect(_)
PatternEffect(ps) ==
    IF ps = <<>> THEN NoEffect
    ELSE LET p    == Head(ps)
             rest == PatternEffect(Tail(ps))
             d    == IF p.type = "BUY" THEN 5 ELSE IF p.type = "SELL" THEN 0 - 5 ELSE 0
         IN Eff(d + rest.d, <<Sig(p.type, "MEDIUM", p.pattern)>> \o rest.s)

RulePattern(f) == PatternEffect(detect_candlestick_patterns(f.rows))

\* the rule blocks in the order the function runs them
RuleEffects(f) ==
    << RuleEmaAlign(f), RuleCross(f), RuleEma200(f), RuleRSI(f), RuleMACD(f),
       RuleStochRSI(f), RuleVolume(f), RuleBollinger(f), RulePattern(f) >>

RECURSIVE SumDeltas(_)
SumDeltas(es) == IF es = <<>> THEN 0 ELSE Head(es).d + SumDeltas(Tail(es))

RECURSIVE CatSignals(_)
CatSignals(es) == IF es = <<>> THEN <<>> ELSE Head(es).s \o CatSignals(Tail(es))

\* the clamp without its upper limit
ClampScore_NoCeiling(score) == Max2(0, score)

\* line 286
ClampScore(score) == Max2(0, Min2(100, score))

calculate_signal_score(f) ==
    LET regime == get_market_regime(f.rows)
    IN IF Len(f.rows) < 5
       THEN [score |-> 50, signals |-> <<>>, regime |-> regime]
       ELSE LET es == RuleEffects(f)
            IN [score   |-> ClampScore(50 + SumDeltas(es)),
                signals |-> CatSignals(es),
                regime  |-> regime]


(***************************************************************************)
(* Input frames of the signal scorer.  The last row is drawn from the      *)
(* product of the column-group values below, the row before it and the     *)
(* third-last row from a few whole rows, and the frame is padded in front  *)
(* with FillRow up to the chosen length.                                   *)
(***************************************************************************)
MaxRows == 10

\*                       Close EMA9 EMA21 EMA50 EMA200
TrendValues == { TrendCols(110, 108, 106, 104, 100),
                 TrendCols( 90,  92,  94,  96, 100),
                 TrendCols(100,  99, 100,  98,  97),
                 TrendCols(100, 101, 100, 102, 103),
                 TrendCols(100, 100, 100, 100, 100) }

\*                     RSI MACD signal K D
MomValues == { MomCols(25,  2,  1, 20, 10),
               MomCols(75, 0 - 2, 0 - 1, 80, 90),
               MomCols(50,  0,  0, 50, 50),
               MomCols( 0,  1,  2,  0,  0),
               MomCols(65,  1,  0, 40, 30) }

\*                     Vol_ratio OBV BB_lower BB_upper ATR      ADX DI+ DI-
\* (ATR in thousandths of the price unit: 0.006, 2, 3; 0 where it has no value)
VolValues == { VolCols(25, 20, 109, 200, 6) @@ AdxCols(30, 20, 10),
               VolCols(25,  0,  50,  91, 2000) @@ AdxCols(30, 10, 20),
               VolCols( 4, 10,  50, 200, 0) @@ AdxCols(25, 20, 10),
               VolCols(10, 10,  50, 200, 3000) @@ AdxCols(30, 15, 15) }

\*                dOpen upper-wick lower-wick
ShapeValues == { <<0 - 30, 1, 1>>, <<30, 1, 1>>, <<0 - 1, 0, 5>>, <<1, 5, 0>>, <<0, 2, 2>> }

\* EMAs aligned upwards with the close below EMA9
TrendDip == TrendCols(107, 108, 106, 104, 100)

LastRows == { t @@ m @@ v @@ Candle(t.Close, sh[1], sh[2], sh[3]) :
                t \in TrendValues \cup {TrendDip}, m \in MomValues, v \in VolValues,
                sh \in ShapeValues }

BearRow == TrendCols(85, 86, 88, 90, 95) @@ MomCols(35, 0 - 3, 0 - 1, 10, 20)
           @@ VolCols(10, 10, 50, 200, 2000) @@ AdxCols(30, 10, 20) @@ Candle(85, 6, 1, 1)
BullRow == TrendCols(115, 114, 112, 110, 105) @@ MomCols(68, 3, 1, 90, 80)
           @@ VolCols(10, 10, 50, 200, 2000) @@ AdxCols(30, 20, 10) @@ Candle(115, 0 - 6, 1, 1)
MidRow  == TrendCols(100, 100, 100, 100, 100) @@ MomCols(50, 0, 0, 50, 50)
           @@ VolCols(10, 10, 50, 200, 2000) @@ AdxCols(20, 15, 15) @@ Candle(100, 0, 1, 1)
FillRow == MidRow

PrevRows  == {BearRow, BullRow, MidRow}
ThirdRows == { [MidRow EXCEPT !.Close = 95,  !.Open = 105, !.High = 106, !.Low = 94],
               [MidRow EXCEPT !.Close = 105, !.Open = 95,  !.High = 106, !.Low = 94] }

RECURSIVE Fill(_)
Fill(n) == IF n <= 0 THEN <<>> ELSE <<FillRow>> \o Fill(n - 1)

\* the last n rows of  Fill ... , third, prev, last
FrameRows(n, third, prev, last) ==
    LET full == Fill(n - 3) \o <<third, prev, last>>
    IN SubSeq(full, Len(full) - n + 1, Len(full))

FrameLens == {0, 3, 4, 5, MaxRows - 1, MaxRows}

(***************************************************************************)
(* modules/signals.py : generate_recommendation, the decision table        *)
(* Arguments: a = [rows, score, signals, regime].                          *)
(***************************************************************************)
CountSignals(signals, type, strength) ==
    Cardinality({ i \in 1..Len(signals) :
                    signals[i].type = type /\ signals[i].strength = strength })

\* lines 516-554: the indicators read from the last row and the key conditions.
\* Band values are kept times 100 so that the defaults close*1.02 / close*0.98
\* stay exact.
RecConditions(a) ==
    LET last   == a.rows[Len(a.rows)]
        close  == last.Close
        ema200 == OrDefault(last.EMA200, close)
        ema50  == OrDefault(last.EMA50, close)
        ema21  == OrDefault(last.EMA21, close)
        ema9   == OrDefault(last.EMA9, close)
        rsi    == OrDefault(last.RSI, 50)
        macd     == OrDefault(last.MACD, 0)
        macd_sig == OrDefault(last.MACD_signal, 0)
        macd_h   == OrDefault(last.MACD_hist, 0)
        bb_up100 == IF last.BB_upper = 0 THEN 102 * close ELSE 100 * last.BB_upper
        bb_lo100 == IF last.BB_lower = 0 THEN  98 * close ELSE 100 * last.BB_lower
    IN [ rsi            |-> rsi,
         is_uptrend     |-> close > ema50 /\ ema50 > 0,
         above_ema200   |-> IF ema200 > 0 THEN close > ema200 ELSE TRUE,
         ema_aligned_up |-> ema9 > ema21 /\ ema21 > ema50,
         ema_aligned_dn |-> ema9 < ema21 /\ ema21 < ema50,
         macd_bullish   |-> macd > macd_sig /\ macd_h > 0,
         rsi_oversold   |-> rsi < 35,
         rsi_overbought |-> rsi > 70,
         near_bb_lower  |-> 100 * 100 * close <= 102 * bb_lo100,
         near_bb_upper  |-> 100 * 100 * close >= 98 * bb_up100,
         sell_strong    |-> CountSignals(a.signals, "SELL", "STRONG"),
         sell_medium    |-> CountSignals(a.signals, "SELL", "MEDIUM"),
         buy_strong     |-> CountSignals(a.signals, "BUY", "STRONG"),
         is_strong_trend |-> OrDefault(last.ADX, 0) > 25,
         macd_improving |-> macd_h > OrDefault(a.rows[Len(a.rows) - 1].MACD_hist, 0),
         vol_confirm    |-> OrDefault(last.Vol_ratio, 10) >= 15 ]

Decision(action, confidence) == [action |-> action, confidence |-> confidence]

\* lines 561-656: the if / elif chain
RecDecide(a) ==
    LET c     == RecConditions(a)
        score == a.score
    IN IF score >= 72 /\ c.ema_aligned_up /\ c.macd_bullish
            /\ c.above_ema200 /\ ~c.rsi_overbought
       THEN Decision("BUY", IF score >= 80 THEN "HIGH" ELSE "MEDIUM")
       ELSE IF score >= 60 /\ (c.is_uptrend \/ c.rsi_oversold \/ c.near_bb_lower)
                 /\ c.sell_strong = 0
       THEN Decision("ACCUMULATE", "MEDIUM")
       ELSE IF 45 <= score /\ score < 60 /\ ~c.rsi_overbought /\ ~c.ema_aligned_dn
       THEN Decision("HOLD", "LOW")
       ELSE IF 40 <= score /\ score < 55
                 /\ (c.rsi_overbought \/ c.near_bb_upper \/ c.ema_aligned_dn)
                 /\ c.sell_medium >= 1
       THEN Decision("REDUCE", "MEDIUM")
       ELSE IF score < 40 /\ c.sell_strong >= 1
                 /\ (c.ema_aligned_dn \/ (~c.above_ema200 /\ a.regime = "BEAR_TREND"))
       THEN Decision("SELL", IF score < 30 THEN "HIGH" ELSE "MEDIUM")
       ELSE Decision("WAIT", "LOW")

\* If(cond, item): the list with the item when the condition holds
If(cond, item) == IF cond THEN <<item>> ELSE <<>>

\* lines 570-652: the reasons each branch appends, in order
BranchReasons(a, action) ==
    LET c == RecConditions(a)
    IN IF action = "BUY"
       THEN If(c.ema_aligned_up, "EMA aligned up") \o If(c.macd_bullish, "MACD bullish")
            \o If(c.above_ema200, "Above EMA200") \o If(c.vol_confirm, "Volume confirms")
       ELSE IF action = "ACCUMULATE"
       THEN If(c.rsi_oversold, "RSI oversold") \o If(c.near_bb_lower, "At lower band")
            \o If(c.is_uptrend, "Above EMA50") \o If(c.macd_improving, "MACD improving")
       ELSE IF action = "HOLD"
       THEN <<"Score neutral">> \o If(~c.is_strong_trend, "ADX weak")
       ELSE IF action = "REDUCE"
       THEN If(c.rsi_overbought, "RSI overbought") \o If(c.near_bb_upper, "At upper band")
            \o If(c.ema_aligned_dn, "EMA aligned down")
       ELSE IF action = "SELL"
       THEN If(c.ema_aligned_dn, "EMA aligned down") \o If(~c.above_ema200, "Below EMA200")
            \o If(c.sell_strong > 0, "Strong sell signals")
       ELSE <<"Score below entry">>
            \o If(c.sell_strong > 0 /\ c.buy_strong > 0, "Conflicting signals")

\* lines 596-653: the cautions each branch appends
BranchCautions(action) ==
    IF action = "BUY" THEN <<>>
    ELSE IF action = "ACCUMULATE" THEN <<"Buy in tranches">>
    ELSE IF action = "HOLD" THEN <<"Wait for direction", "Watch volume">>
    ELSE IF action = "REDUCE" THEN <<"Sell in parts">>
    ELSE IF action = "SELL" THEN <<"Set stop loss">>
    ELSE <<"Do not force entry">>

\* lines 656-663
RegimeNotes == {"BULL_TREND", "BEAR_TREND", "SIDEWAYS", "TRANSITION"}
NoteText(regime) ==
    CASE regime = "BULL_TREND" -> "In a bull trend"
      [] regime = "BEAR_TREND" -> "In a bear trend"
      [] regime = "SIDEWAYS"   -> "Sideways market"
      [] OTHER                 -> "In transition"
RegimeNote(regime) == If(regime \in RegimeNotes, NoteText(regime))

\* round(x, 2) of a price x given in thousandths, as cents; a value half-way
\* between two cents goes either way
RoundCents(x, tie) ==
    LET q == x \div 10
        r == x - q * 10
    IN IF r < 5 THEN q ELSE IF r > 5 THEN q + 1 ELSE q + tie

Absent == [present |-> FALSE, low |-> 0, high |-> 0, v |-> 0]

\* line 516: close = float(last['Close']), in thousandths
LevelBase(a) == 1000 * a.rows[Len(a.rows)].Close

\* lines 666-685: entry zone, stop loss, targets and the R:R item.  atr is
\* last.get('ATR', close*0.02) or close*0.02 (line 524)
RecLevels(a, action, tie) ==
    LET close == LevelBase(a)
        last  == a.rows[Len(a.rows)]
        atr   == IF last.ATR = 0 THEN (close * 2) \div 100 ELSE last.ATR
    IN IF action \in {"BUY", "ACCUMULATE"}
       THEN LET stop_loss == RoundCents(close - 2 * atr, tie)
                tp1 == RoundCents(close + (5 * atr) \div 2, tie)
                tp2 == RoundCents(close + 4 * atr, tie)
                risk   == Abs(close - 10 * stop_loss)
                reward == Abs(10 * tp1 - close)
                low_rr == risk = 0 \/ 2 * reward < 3 * risk
            IN [entry_zone |-> [present |-> TRUE,
                                low |-> RoundCents((close * 99) \div 100, tie),
                                high |-> RoundCents((close * 1005) \div 1000, tie), v |-> 0],
                stop_loss |-> [present |-> TRUE, low |-> 0, high |-> 0, v |-> stop_loss],
                targets |-> <<tp1, tp2>>,
                rr_reason |-> If(~low_rr, "R:R worthwhile"),
                rr_caution |-> If(low_rr, "R:R low")]
       ELSE IF action \in {"REDUCE", "SELL"}
       THEN [entry_zone |-> Absent,
             stop_loss |-> [present |-> TRUE, low |-> 0, high |-> 0,
                            v |-> RoundCents(close + (3 * atr) \div 2, tie)],
             targets |-> <<>>, rr_reason |-> <<>>, rr_caution |-> <<>>]
       ELSE [entry_zone |-> Absent, stop_loss |-> Absent, targets |-> <<>>,
             rr_reason |-> <<>>, rr_caution |-> <<>>]

\* lines 687-691
RsiCaution(a, action) ==
    LET rsi == RecConditions(a).rsi
    IN IF rsi > 70 /\ action \notin {"SELL", "REDUCE"} THEN <<"RSI high">>
       ELSE IF rsi < 30 /\ action \notin {"BUY", "ACCUMULATE"} THEN <<"RSI very low">>
       ELSE <<>>

\* the lists before the truncation, in append order
AllReasons(a, action, tie) ==
    BranchReasons(a, action) \o RegimeNote(a.regime) \o RecLevels(a, action, tie).rr_reason

AllCautions(a, action, tie) ==
    BranchCautions(action) \o RecLevels(a, action, tie).rr_caution \o RsiCaution(a, action)

\* variant: the lists returned whole
Limit_None(list, n) == list

\* lines 694-695: reasons[:5], cautions[:3]
Limit(list, n) == SubSeq(list, 1, Min2(n, Len(list)))

\* lines 720-729
neutral_rec ==
    Decision("WAIT", "LOW") @@
    [reasons |-> <<>>, cautions |-> <<"Longer timeframe">>,
     entry_zone |-> Absent, stop_loss |-> Absent, targets |-> <<>>]

\* lines 509-510: fewer than 5 bars give the fixed neutral answer; otherwise
\* lines 512-715
generate_recommendation(a, tie) ==
    IF Len(a.rows) < 5 THEN neutral_rec
    ELSE LET d == RecDecide(a)
             lv == RecLevels(a, d.action, tie)
         IN d @@ [reasons |-> Limit(AllReasons(a, d.action, tie), 5),
                  cautions |-> Limit(AllCautions(a, d.action, tie), 3),
                  entry_zone |-> lv.entry_zone, stop_loss |-> lv.stop_loss,
                  targets |-> lv.targets]

(***************************************************************************)
(* Arguments of generate_recommendation.                                   *)
(***************************************************************************)
RecLastRows == { t @@ m @@ v @@ Candle(t.Close, 0, 1, 1) :
                   t \in TrendValues, m \in MomValues, v \in VolValues }

ScoreInputs == {0, 29, 30, 39, 40, 44, 45, 54, 55, 59, 60, 71, 72, 79, 80, 100}

SignalInputs ==
    { <<>>,
      <<Sig("SELL", "STRONG", "Death Cross")>>,
      <<Sig("SELL", "MEDIUM", "Price below EMA50")>>,
      <<Sig("SELL", "STRONG", "RSI overbought"), Sig("SELL", "MEDIUM", "Bollinger upper")>>,
      <<Sig("BUY", "STRONG", "Golden Cross"), Sig("SELL", "STRONG", "MACD cross down")>>,
      <<Sig("BUY", "STRONG", "Golden Cross"), Sig("BUY", "MEDIUM", "Price above EMA50")>> }

Regimes == {"BULL_TREND", "BEAR_TREND", "SIDEWAYS", "TRANSITION"}

RecArgs(n, prev, last, sc, sg, rg, q) ==
    [done |-> TRUE, rows |-> FrameRows(n, MidRow, prev, last), score |-> sc,
     signals |-> sg, regime |-> rg, current_price |-> 1000 * last.Close + q]

\* app.py lines 372-374: the quote price handed over as current_price, as its
\* distance from the frame's last close (thousandths)
QuoteOffsets == {0, 1000}

(***************************************************************************)
(* modules/scanner.py : run_fibonacci_scan / run_daytrade_scan             *)
(* Both functions share the same body; they differ in the worker function  *)
(* (_scan_one / _scan_intraday), whose result is the task's outcome here.  *)
(* Tasks are numbered 1..NumSymbols in submission order; task i scans      *)
(* symbols[i].                                                             *)
(***************************************************************************)
NumSymbols == 4
MaxWorkers == 2

Tasks == 1..NumSymbols

\* what a worker function can produce: None, an exception, or a result row
\* (fib_score, risk_reward in tenths)
Row(score, rr) == [kind |-> "row", fib_score |-> score, risk_reward |-> rr]
ReturnedNone   == [kind |-> "none"]
Raised         == [kind |-> "raise"]
NotFinished    == [kind |-> "pending"]
Outcomes       == {ReturnedNone, Raised, Row(80, 20), Row(50, 10), Row(30, 20)}

MinFibScores == {40, 55}
MinRRs       == {10, 15}

NumRunning == Cardinality({ i \in Tasks : status[i] \in {"running", "hung"} })

FilterRows_ScoreOnly(ids, min_fib_score, min_rr) ==
    SelectSeq(ids, LAMBDA i : outcome[i].fib_score >= min_fib_score)

\* lines 265-269 / 731-734: filter by both minimums ...
FilterRows(ids, min_fib_score, min_rr) ==
    SelectSeq(ids, LAMBDA i : /\ outcome[i].fib_score >= min_fib_score
                              /\ outcome[i].risk_reward >= min_rr)

\* ... and sort_values('fib_score', ascending=False): any arrangement of the
\* rows with non-increasing fib_score (the order among equal scores is not fixed
\* by the sort)
SortedByScore(ids) ==
    { p \in [1..Len(ids) -> { ids[k] : k \in 1..Len(ids) }] :
        /\ \A a, b \in 1..Len(ids) : a # b => p[a] # p[b]
        /\ \A a \in 1..Len(ids) - 1 :
              outcome[p[a]].fib_score >= outcome[p[a + 1]].fib_score }

(***************************************************************************)
(* modules/signals.py : run_backtest                                       *)
(* Bars are numbered as in the code (0-based): bar i is rows[i + 1].       *)
(* equity is kept as an exact fraction num/den in lowest terms; the code   *)
(* computes the same quantities in binary floating point.  The display     *)
(* fields of a trade-log entry (dates formatted to the day, prices rounded *)
(* to 2 decimals) are derived from the bar and prices kept in the entry.   *)
(***************************************************************************)
RECURSIVE GCD(_, _)
GCD(a, b) == IF b = 0 THEN Abs(a) ELSE GCD(b, a % b)

Frac(n, d) ==
    LET g == GCD(Abs(n), Abs(d))
        s == IF d < 0 THEN 0 - 1 ELSE 1
    IN [num |-> s * (n \div g), den |-> s * (d \div g)]

FracMul(a, b) ==
    LET x == Frac(a.num, b.den)
        y == Frac(b.num, a.den)
    IN Frac(x.num * y.num, x.den * y.den)

\* variant in which the profit of a closed trade is never booked
FracAdd_Drop(a, b) == a

FracAdd(a, b) ==
    LET l == (a.den \div GCD(a.den, b.den)) * b.den
    IN Frac(a.num * (l \div a.den) + b.num * (l \div b.den), l)

\* round(n / d) for d > 0, halves to the even neighbour as Python's round()
RoundHalfEven(n, d) ==
    LET q == n \div d
        r == n - q * d
    IN IF 2 * r < d THEN q
       ELSE IF 2 * r > d THEN q + 1
       ELSE IF q % 2 = 0 THEN q ELSE q + 1

Bar(rows, i) == rows[i + 1]

Strategies == {"EMA Crossover (9/21)", "RSI Oversold/Overbought", "MACD Crossover",
               "Bollinger Band Bounce", "Combined Signal Score > 65"}

\* variant that reads the bar after bar i when there is one
BTSignals_LookAhead(rows, strategy, i) ==
    LET nxt == Bar(rows, Min2(i + 1, Len(rows) - 1))
    IN [entry |-> OrDefault(nxt.RSI, 50) >= 70, exit |-> OrDefault(nxt.RSI, 50) < 30]

\* lines 373-408: entry_signal and exit_signal of bar i
BTSignals(rows, strategy, i) ==
    LET row   == Bar(rows, i)
        prev  == Bar(rows, i - 1)
        close == row.Close
    IN CASE strategy = "EMA Crossover (9/21)" ->
              LET ema9_now   == OrDefault(row.EMA9, 0)
                  ema21_now  == OrDefault(row.EMA21, 0)
                  ema9_prev  == OrDefault(prev.EMA9, 0)
                  ema21_prev == OrDefault(prev.EMA21, 0)
              IN [entry |-> ema9_prev < ema21_prev /\ ema9_now > ema21_now,
                  exit  |-> ema9_prev > ema21_prev /\ ema9_now < ema21_now]
         [] strategy = "RSI Oversold/Overbought" ->
              LET rsi_now  == OrDefault(row.RSI, 50)
                  rsi_prev == OrDefault(prev.RSI, 50)
              IN [entry |-> rsi_prev < 30 /\ rsi_now >= 30,
                  exit  |-> rsi_prev < 70 /\ rsi_now >= 70]
         [] strategy = "MACD Crossover" ->
              LET macd_now  == OrDefault(row.MACD, 0)
                  sig_now   == OrDefault(row.MACD_signal, 0)
                  macd_prev == OrDefault(prev.MACD, 0)
                  sig_prev  == OrDefault(prev.MACD_signal, 0)
              IN [entry |-> macd_prev < sig_prev /\ macd_now > sig_now,
                  exit  |-> macd_prev > sig_prev /\ macd_now < sig_now]
         [] strategy = "Bollinger Band Bounce" ->
              LET bb_lower == OrDefault(row.BB_lower, 0)
                  bb_upper == OrDefault(row.BB_upper, 0)
              IN [entry |-> bb_lower > 0 /\ close * 1000 <= bb_lower * 1005,
                  exit  |-> bb_upper > 0 /\ close * 1000 >= bb_upper * 995]
         [] strategy = "Combined Signal Score > 65" ->
              LET sc == calculate_signal_score(
                            [rows |-> SubSeq(rows, 1, i + 1), hasOBV |-> TRUE]).score
              IN [entry |-> sc >= 65, exit |-> sc <= 35]
         [] OTHER -> [entry |-> FALSE, exit |-> FALSE]

\* lines 356-360: the locals before the loop (entry_date None is -1)
BTStart(capital) ==
    [in_position |-> FALSE, entry_price |-> 0, entry_date |-> 0 - 1,
     equity |-> Frac(capital, 1), trades |-> <<>>]

\* variant in which an entry signal is taken even while in position
BTStep_EnterAnyway(rows, strategy, sl_pct, i, st) ==
    LET sg    == BTSignals(rows, strategy, i)
        close == Bar(rows, i).Close
    IN IF sg.entry
       THEN [st EXCEPT !.in_position = TRUE, !.entry_price = close, !.entry_date = i]
       ELSE IF st.in_position /\ (sg.exit \/ close * 1000 <= st.entry_price * (1000 - sl_pct))
            THEN [st EXCEPT
                    !.trades = Append(st.trades,
                        [entry_date  |-> st.entry_date,
                         exit_date   |-> i,
                         entry_price |-> st.entry_price,
                         exit_price  |-> close,
                         pnl_pct     |-> 0,
                         win         |-> close > st.entry_price]),
                    !.in_position = FALSE]
            ELSE st

\* lines 410-431: execute trades at bar i; sl_pct is in thousandths
BTStep(rows, strategy, sl_pct, i, st) ==
    LET sg    == BTSignals(rows, strategy, i)
        close == Bar(rows, i).Close
    IN IF ~st.in_position /\ sg.entry
       THEN [st EXCEPT !.in_position = TRUE, !.entry_price = close, !.entry_date = i]
       ELSE IF st.in_position
            THEN IF sg.exit \/ close * 1000 <= st.entry_price * (1000 - sl_pct)
                 THEN LET pnl_pct == RoundHalfEven((close - st.entry_price) * 10000,
                                                   st.entry_price)
                          pnl_thb == FracMul(st.equity,
                                             Frac(close - st.entry_price, st.entry_price))
                      IN [st EXCEPT
                            !.equity = FracAdd(st.equity, pnl_thb),
                            !.trades = Append(st.trades,
                                [entry_date  |-> st.entry_date,
                                 exit_date   |-> i,
                                 entry_price |-> st.entry_price,
                                 exit_price  |-> close,
                                 pnl_pct     |-> pnl_pct,
                                 win         |-> close > st.entry_price]),
                            !.in_position = FALSE]
                 ELSE st
            ELSE st

\* the loop of line 367 run over bars 2 .. n-1
RECURSIVE BTRun(_, _, _, _, _)
BTRun(rows, strategy, capital, sl_pct, n) ==
    IF n <= 2 THEN BTStart(capital)
    ELSE BTStep(rows, strategy, sl_pct, n - 1, BTRun(rows, strategy, capital, sl_pct, n - 1))

\* lines 437-442 and 471-474: statistics, percentages in hundredths
BTStats(capital, eq, trs) ==
    IF trs = <<>>
    THEN [total_return |-> 0, win_rate |-> 0, total_trades |-> 0]
    ELSE LET gain == Frac(eq.num - capital * eq.den, capital * eq.den)
             wins == Cardinality({ k \in 1..Len(trs) : trs[k].pnl_pct > 0 })
         IN [total_return |-> RoundHalfEven(gain.num * 10000, gain.den),
             win_rate     |-> RoundHalfEven(wins * 10000, Len(trs)),
             total_trades |-> Len(trs)]

(***************************************************************************)
(* Backtest inputs: frames of whole bars drawn from three templates.       *)
(***************************************************************************)
MaxBars == 7

BtBear == TrendCols(90, 92, 95, 98, 100) @@ MomCols(25, 0 - 2, 0 - 1, 10, 20)
          @@ VolCols(10, 10, 90, 120, 2000) @@ AdxCols(30, 10, 20) @@ Candle(90, 6, 1, 1)
BtBull == TrendCols(110, 108, 105, 102, 100) @@ MomCols(75, 2, 1, 90, 80)
          @@ VolCols(10, 10, 80, 110, 2000) @@ AdxCols(30, 20, 10) @@ Candle(110, 0 - 6, 1, 1)
BtMid  == TrendCols(100, 100, 100, 100, 100) @@ MomCols(50, 0, 0, 50, 50)
          @@ VolCols(10, 10, 85, 115, 2000) @@ AdxCols(20, 15, 15) @@ Candle(100, 0, 1, 1)
BtBars == {BtBear, BtBull, BtMid}

\* all sequences of k bars
Tails(k) == [1..k -> BtBars]

BTLens     == {3, MaxBars}
Capitals   == {10000, 20000}
StopLosses == {70, 150}

(***************************************************************************)
(* Prices of the stop-loss and target calculations are integers in units   *)
(* of 0.00001 (a thousandth of a cent): the factors 0.85 ... 1.15, 0.786,  *)
(* 0.618 and 1.5 are exact on the inputs used, and round(x, 2) is rounding *)
(* to a multiple of Cent.  The code computes in binary floating point, so  *)
(* a value halfway between two cents may be rounded either way: `tie` is   *)
(* the direction taken.                                                    *)
(***************************************************************************)
Cent == 1000

Round2(x, tie) ==
    LET q == x \div Cent
        r == x - q * Cent
    IN IF 2 * r < Cent THEN q * Cent
       ELSE IF 2 * r > Cent THEN (q + 1) * Cent
       ELSE (q + tie) * Cent

Ties == {0, 1}

\* a float column value: a number, NaN, or no such column
Num(v)    == [missing |-> FALSE, nan |-> FALSE, v |-> v]
NaN       == [missing |-> FALSE, nan |-> TRUE, v |-> 0]
NoColumn  == [missing |-> TRUE, nan |-> FALSE, v |-> 0]

\* Python min(a, b) / max(a, b) with a a number: b replaces a only if b < a
\* (b > a), which is False when b is NaN
PyMin(a, b) == IF ~b.nan /\ b.v < a THEN b.v ELSE a
PyMax(a, b) == IF ~b.nan /\ b.v > a THEN b.v ELSE a

(***************************************************************************)
(* modules/scanner.py : stop loss of _scan_one and _scan_intraday          *)
(* in = [intraday, is_uptrend, current, swing_low, swing_high, atr_col]    *)
(* where atr_col is NoColumn or the last value of the ATR column.          *)
(***************************************************************************)
\* lines 81-84: fp(r) for r in thousandths
fp(in, r) ==
    IF in.is_uptrend
    THEN in.swing_low + ((in.swing_high - in.swing_low) * r) \div 1000
    ELSE in.swing_high - ((in.swing_high - in.swing_low) * r) \div 1000

\* lines 117-122: the loop over [rsi, atr, vol_ratio] rebinds its own variable
\* only, so a NaN ATR stays NaN
AtrSingle(in) ==
    IF in.atr_col.missing THEN Num((in.current * 2) \div 100) ELSE in.atr_col

\* lines 593, 596
AtrIntraday(in) ==
    IF in.atr_col.missing \/ in.atr_col.nan
    THEN Num(in.current \div 100)
    ELSE in.atr_col

Shift(current, atr, k) == IF atr.nan THEN NaN ELSE Num(current + (k * atr.v * 3) \div 2)

\* variant of the single-timeframe stop loss without the second clamp
StopLossSingle_OneClamp(in, tie) ==
    LET atr == AtrSingle(in)
    IN IF in.is_uptrend
       THEN Round2(Max2(PyMin(fp(in, 786), Shift(in.current, atr, 0 - 1)),
                        (in.current * 85) \div 100), tie)
       ELSE Round2(Min2(PyMax(fp(in, 786), Shift(in.current, atr, 1)),
                        (in.current * 115) \div 100), tie)

\* lines 124-136
StopLossSingle(in, tie) ==
    LET atr    == AtrSingle(in)
        sl_fib == fp(in, 786)
    IN IF in.is_uptrend
       THEN LET sl_atr == Shift(in.current, atr, 0 - 1)
                sl     == Round2(Max2(PyMin(sl_fib, sl_atr), (in.current * 85) \div 100), tie)
            IN Min2(sl, (in.current * 98) \div 100)
       ELSE LET sl_atr == Shift(in.current, atr, 1)
                sl     == Round2(Min2(PyMax(sl_fib, sl_atr), (in.current * 115) \div 100), tie)
            IN Max2(sl, (in.current * 102) \div 100)

\* lines 600-606
StopLossIntraday(in, tie) ==
    LET atr == AtrIntraday(in).v
    IN IF in.is_uptrend
       THEN Min2(Round2(Max2(in.current - atr, (in.current * 97) \div 100), tie),
                 (in.current * 99) \div 100)
       ELSE Max2(Round2(Min2(in.current + atr, (in.current * 103) \div 100), tie),
                 (in.current * 101) \div 100)

ScanStopLoss(in, tie) ==
    IF in.intraday THEN StopLossIntraday(in, tie) ELSE StopLossSingle(in, tie)

\* lines 88-100 / 572-581: the zone lookup.  fp(r) is computed in binary floating
\* point: fp(0.0) is the base swing point itself, but fp(1.0) =
\* base +/- (swing_high - swing_low) can miss the other swing point by one unit in
\* the last place (112.05 - (112.05 - 27.31) = 27.310000000000002); `err` is that
\* error, in units of 0.00001.
FibRatios == <<0, 236, 382, 500, 618, 786, 1000>>
FloatErrs == {0 - 1, 0, 1}

fp_float(in, r, err) == IF r = 1000 THEN fp(in, r) + err ELSE fp(in, r)

\* lo <= current <= hi for the k-th pair (r0, r1)
InZone(in, k, err) ==
    LET p0 == fp_float(in, FibRatios[k], err)
        p1 == fp_float(in, FibRatios[k + 1], err)
    IN Min2(p0, p1) <= in.current /\ in.current <= Max2(p0, p1)

\* the loop with its break: the first pair that matches, 0 for "outside"
ZoneIndex(in, err) ==
    IF \E k \in 1..6 : InZone(in, k, err)
    THEN CHOOSE k \in 1..6 : InZone(in, k, err) /\ \A j \in 1..(k - 1) : ~InZone(in, j, err)
    ELSE 0

\* zone_ratio = (r0 + r1) / 2 in thousandths, 0 - 1 for None
ZoneRatio(k) == IF k = 0 THEN 0 - 1 ELSE (FibRatios[k] + FibRatios[k + 1]) \div 2

\* zone_name: the two ratios and whether the star is appended ("outside" when k = 0)
ZoneName(k) ==
    IF k = 0 THEN [r0 |-> 0 - 1, r1 |-> 0 - 1, star |-> FALSE]
    ELSE [r0 |-> FibRatios[k], r1 |-> FibRatios[k + 1],
          star |-> 382 <= ZoneRatio(k) /\ ZoneRatio(k) <= 618]

\* inputs: prices 10.20, 10.15, 2.50 and 0.20; the swing points enclose the
\* current price (it is the last close of the bars they are taken from)
StopPrices == {1020000, 1015000, 250000, 20000}

AtrCols(c) == {NoColumn, NaN, Num(0), Num(c \div 250), Num(c \div 50),
               Num(c \div 20), Num(c \div 2)}

Swings(c) == { sw \in { <<c, (c * 9) \div 10, c \div 2>>[k] : k \in 1..3 }
                      \X { <<c, (c * 11) \div 10, c * 2>>[k] : k \in 1..3 } :
               sw[2] - sw[1] > 0 }

StopInputs ==
    UNION { { [done |-> TRUE, intraday |-> m, is_uptrend |-> u, current |-> c,
               swing_low |-> sw[1], swing_high |-> sw[2], atr_col |-> a] :
                m \in BOOLEAN, u \in BOOLEAN, sw \in Swings(c), a \in AtrCols(c) } :
            c \in StopPrices }

(***************************************************************************)
(* modules/indicators.py : find_support_resistance (from the clustered     *)
(* levels on) and modules/signals.py : calculate_price_targets.            *)
(* in = [current_price, last_close, sup_levels, res_levels, period_low,    *)
(*       period_high, atr_col]; sup_levels / res_levels are the clustered  *)
(* local minima / maxima of the closes, ascending.                         *)
(***************************************************************************)
\* index of the first element of levels nearest to current
NearestIdx(levels, current) ==
    CHOOSE k \in 1..Len(levels) :
        /\ \A j \in 1..Len(levels) : Abs(levels[k] - current) <= Abs(levels[j] - current)
        /\ \A j \in 1..(k - 1) : Abs(levels[j] - current) > Abs(levels[k] - current)

Remove(levels, k) == SubSeq(levels, 1, k - 1) \o SubSeq(levels, k + 1, Len(levels))

\* sorted(levels, key=lambda x: abs(x - current)): stable
RECURSIVE SortByDistance(_, _)
SortByDistance(levels, current) ==
    IF levels = <<>> THEN <<>>
    ELSE LET k == NearestIdx(levels, current)
         IN <<levels[k]>> \o SortByDistance(Remove(levels, k), current)

FirstSeven(levels) == SubSeq(levels, 1, Min2(7, Len(levels)))

\* indicators.py lines 143-145
find_support_resistance(in) ==
    LET current == in.last_close
        sup == SelectSeq(in.sup_levels, LAMBDA x : 100 * x < 102 * current)
        res == SelectSeq(in.res_levels, LAMBDA x : 100 * x > 98 * current)
    IN [supports    |-> FirstSeven(SortByDistance(sup, current)),
        resistances |-> FirstSeven(SortByDistance(res, current))]

\* round(100 * a / b, 2) in hundredths and round(a / b, 3) in thousandths, b > 0
Pct2(a, b) ==
    LET q == (a * 100) \div b
        r == a * 100 - q * b
    IN q * 100 + RoundHalfEven(r * 100, b)

Ratio3(a, b) ==
    LET q == a \div b
        r == a - q * b
    IN q * 1000 + RoundHalfEven(r * 1000, b)

\* variant: the ratio the other way round, reward over risk
RiskReward_RewardOverRisk(risk_amount, tp1, current_price) ==
    IF risk_amount > 0 THEN Ratio3(tp1 - current_price, risk_amount) ELSE 500

\* signals.py line 333, before round(risk_reward, 3)
RiskReward(risk_amount, tp1, current_price) ==
    IF tp1 - current_price > 0 THEN Ratio3(risk_amount, tp1 - current_price) ELSE 500

\* signals.py lines 291-349
calculate_price_targets(in, tie) ==
    LET sr            == find_support_resistance(in)
        current_price == in.current_price
        atr           == IF in.atr_col.missing \/ in.atr_col.nan
                         THEN (current_price * 2) \div 100
                         ELSE in.atr_col.v
        fib_range     == in.period_high - in.period_low
        fib_618       == Round2(in.period_low + (fib_range * 618) \div 1000, tie)
        nearest_sup   == IF sr.supports # <<>> THEN sr.supports[1]
                         ELSE (current_price * 95) \div 100
        buy_low       == Round2((Min2(nearest_sup, fib_618) * 99) \div 100, tie)
        buy_high      == Round2((Max2(nearest_sup, fib_618) * 101) \div 100, tie)
        stop_loss     == Round2(buy_low - (atr * 3) \div 2, tie)
        risk_amount   == current_price - stop_loss
        tp1           == Round2(current_price + risk_amount * 2, tie)
        tp2           == Round2(current_price + risk_amount * 3, tie)
        tp3           == IF sr.resistances # <<>> THEN Round2(sr.resistances[1], tie)
                         ELSE Round2(current_price + risk_amount * 4, tie)
    IN [buy_zone        |-> [low |-> buy_low, high |-> buy_high],
        stop_loss       |-> stop_loss,
        targets         |-> <<tp1, tp2, tp3>>,
        trailing_stop   |-> Round2(current_price - atr * 2, tie),
        risk_amount_pct |-> Pct2(Abs(risk_amount), current_price),
        risk_reward     |-> RiskReward(risk_amount, tp1, current_price),
        fib_618         |-> fib_618,
        support_levels    |-> sr.supports,
        resistance_levels |-> sr.resistances]

\* inputs, relative to the last close c of the frame (10.00 or 2.50)
LastCloses == {1000000, 250000}

Pc(c, pct) == (c * pct) \div 1000

SupportLevels(c) == { <<>>, <<Pc(c, 950)>>, <<c>>, <<Pc(c, 984), Pc(c, 1015)>>,
                      <<Pc(c, 900), Pc(c, 1015), Pc(c, 1030)>>,
                      <<Pc(c, 900), Pc(c, 912), Pc(c, 924), Pc(c, 936), Pc(c, 948),
                        Pc(c, 960), Pc(c, 972), Pc(c, 984)>> }
ResistanceLevels(c) == { <<>>, <<Pc(c, 1050)>>, <<Pc(c, 990), Pc(c, 1100)>> }
Periods(c) == { <<Pc(c, 900), Pc(c, 1200)>>, <<Pc(c, 800), c>>, <<Pc(c, 984), Pc(c, 1100)>> }
TargetAtrCols(c) == {NoColumn, NaN, Num(c \div 500), Num(c \div 50), Num(c \div 20)}
\* the quote: the last close, 2% below, 1% above, and a tenth of a cent below
QuotePrices(c) == {c, Pc(c, 980), Pc(c, 1010), c - 100}

TargetInputs ==
    UNION { { [done |-> TRUE, current_price |-> q, last_close |-> c,
               sup_levels |-> su, res_levels |-> re,
               period_low |-> pd[1], period_high |-> pd[2], atr_col |-> a] :
                q \in QuotePrices(c), su \in SupportLevels(c), re \in ResistanceLevels(c),
                pd \in Periods(c), a \in TargetAtrCols(c) } :
            c \in LastCloses }

(***************************************************************************)
(* State machine.  `mode` names the entry point a behaviour exercises; the *)
(* variables of the other entry points stay at their idle values.          *)
(***************************************************************************)
NotCalled == [done |-> FALSE]

IdleScore == df = [rows |-> <<>>, hasOBV |-> TRUE] /\ sc_out = NotCalled
IdleRec   == rec_in = NotCalled /\ rec_out = NotCalled
IdleScan  == /\ status = <<>> /\ outcome = <<>> /\ scan_pc = "idle" /\ done = 0
             /\ cb_calls = <<>> /\ results = <<>> /\ scan_args = NotCalled /\ table = <<>>
IdleBT    == /\ bt_in = NotCalled /\ bt_i = 0 /\ bt_pc = "idle" /\ in_position = FALSE
             /\ entry_price = 0 /\ entry_date = 0 /\ equity = [num |-> 0, den |-> 1]
             /\ trades = <<>> /\ equity_curve_y = <<>> /\ bt_out = NotCalled
IdleStop  == sl_in = NotCalled /\ sl_out = NotCalled
IdleTg    == tg_in = NotCalled /\ tg_out = NotCalled
IdleMtf   == /\ mtf_pc = "idle" /\ mtf_todo = {} /\ raw = <<>>
             /\ mtf_args = NotCalled /\ mtf_table = <<>>
IdleFib   == fib_in = NotCalled /\ fib_out = NotCalled
IdleBell  == bell_in = NotCalled /\ bell_out = NotCalled
IdlePat   == pat_in = NotCalled /\ pat_out = NotCalled

KeepExceptScore == UNCHANGED <<mode, recVars, scanVars, btVars, stopVars, tgVars, mtfVars, fibVars, bellVars, patVars>>
KeepExceptRec   == UNCHANGED <<mode, scoreVars, scanVars, btVars, stopVars, tgVars, mtfVars, fibVars, bellVars, patVars>>
KeepExceptScan  == UNCHANGED <<mode, scoreVars, recVars, btVars, stopVars, tgVars, mtfVars, fibVars, bellVars, patVars>>
KeepExceptBT    == UNCHANGED <<mode, scoreVars, recVars, scanVars, stopVars, tgVars, mtfVars, fibVars, bellVars, patVars>>
KeepExceptStop  == UNCHANGED <<mode, scoreVars, recVars, scanVars, btVars, tgVars, mtfVars, fibVars, bellVars, patVars>>
KeepExceptTg    == UNCHANGED <<mode, scoreVars, recVars, scanVars, btVars, stopVars, mtfVars, fibVars, bellVars, patVars>>
KeepExceptMtf   == UNCHANGED <<mode, scoreVars, recVars, scanVars, btVars, stopVars, tgVars, fibVars, bellVars, patVars>>
KeepExceptFib   == UNCHANGED <<mode, scoreVars, recVars, scanVars, btVars, stopVars, tgVars, mtfVars, bellVars, patVars>>

\* ---- signal scorer -----------------------------------------------------
InitScore ==
    /\ mode = "score"
    /\ \E n \in FrameLens, c1 \in ThirdRows, c2 \in PrevRows, c3 \in LastRows, ob \in BOOLEAN :
           df = [rows |-> FrameRows(n, c1, c2, c3), hasOBV |-> ob]
    /\ sc_out = NotCalled
    /\ IdleRec /\ IdleScan /\ IdleBT /\ IdleStop /\ IdleTg /\ IdleMtf /\ IdleFib /\ IdleBell /\ IdlePat

CallSignalScore ==
    /\ mode = "score"
    /\ ~sc_out.done
    /\ sc_out' = [done |-> TRUE] @@ calculate_signal_score(df)
    /\ UNCHANGED df /\ KeepExceptScore

NextScore == CallSignalScore

SpecScore == InitScore /\ [][NextScore]_vars

(***************************************************************************)
(* C1: calculate_signal_score returns an integer score in [0,100] that is  *)
(* 50 plus the fixed delta of every triggered rule (the returned signals   *)
(* name the triggered rules), clamped to [0,100]; a frame of fewer than 5  *)
(* bars gives exactly 50 and no signal.                                    *)
(***************************************************************************)
RuleDelta(sig) ==
    CASE sig.rule = "EMA alignment up"    -> 15
      [] sig.rule = "EMA alignment down"  -> 0 - 15
      [] sig.rule = "Price above EMA50"   -> 7
      [] sig.rule = "Price below EMA50"   -> 0 - 7
      [] sig.rule = "Golden Cross"        -> 12
      [] sig.rule = "Death Cross"         -> 0 - 12
      [] sig.rule = "Price above EMA200"  -> 8
      [] sig.rule = "Price below EMA200"  -> 0 - 8
      [] sig.rule = "RSI oversold"        -> 12
      [] sig.rule = "RSI overbought"      -> 0 - 12
      [] sig.rule = "MACD cross up"       -> 10
      [] sig.rule = "MACD cross down"     -> 0 - 10
      [] sig.rule = "MACD positive"       -> 5
      [] sig.rule = "MACD negative"       -> 0 - 5
      [] sig.rule = "StochRSI cross up"   -> 8
      [] sig.rule = "StochRSI cross down" -> 0 - 8
      [] sig.rule = "Volume spike up"     -> 10
      [] sig.rule = "Volume spike down"   -> 0 - 10
      [] sig.rule = "OBV accumulation"    -> 7
      [] sig.rule = "OBV distribution"    -> 0 - 7
      [] sig.rule = "Bollinger lower"     -> 5
      [] sig.rule = "Bollinger upper"     -> 0 - 5
      [] sig.rule \in {"RSI mid zone", "Volume low"} -> 0
      [] OTHER -> IF sig.type = "BUY" THEN 5 ELSE IF sig.type = "SELL" THEN 0 - 5 ELSE 0

RECURSIVE SumRuleDeltas(_)
SumRuleDeltas(sigs) ==
    IF sigs = <<>> THEN 0 ELSE RuleDelta(Head(sigs)) + SumRuleDeltas(Tail(sigs))

C1_ScoreBounded ==
    sc_out.done =>
        /\ sc_out.score \in 0..100
        /\ LET unclamped == 50 + SumRuleDeltas(sc_out.signals)
           IN sc_out.score = (IF unclamped < 0 THEN 0 ELSE IF unclamped > 100 THEN 100 ELSE unclamped)
        /\ (Len(df.rows) < 5 => sc_out.score = 50 /\ sc_out.signals = <<>>)

\* a call whose unclamped sum exceeds 100, and so is cut back to 100
C1_Witness ==
    /\ sc_out.done
    /\ Len(df.rows) >= 5
    /\ 50 + SumRuleDeltas(sc_out.signals) > 100
    /\ sc_out.score = 100


\* ---- recommendation engine ---------------------------------------------
InitRec ==
    /\ mode = "rec"
    /\ \/ \E prev \in {BearRow, BullRow}, last \in RecLastRows, sc \in ScoreInputs,
              sg \in SignalInputs, rg \in Regimes, q \in QuoteOffsets :
               rec_in = RecArgs(5, prev, last, sc, sg, rg, q)
       \/ \E last \in RecLastRows, sc \in ScoreInputs :
               rec_in = RecArgs(4, BearRow, last, sc, <<>>, "SIDEWAYS", 0)
    /\ rec_out = NotCalled
    /\ IdleScore /\ IdleScan /\ IdleBT /\ IdleStop /\ IdleTg /\ IdleMtf /\ IdleFib /\ IdleBell /\ IdlePat

CallRecommend ==
    /\ mode = "rec"
    /\ ~rec_out.done
    /\ \E tie \in Ties : rec_out' = [done |-> TRUE] @@ generate_recommendation(rec_in, tie)
    /\ UNCHANGED rec_in /\ KeepExceptRec

NextRec == CallRecommend

SpecRec == InitRec /\ [][NextRec]_vars

(***************************************************************************)
(* C2: for a frame of at least 5 bars generate_recommendation returns the  *)
(* first branch, in the order BUY, ACCUMULATE, HOLD, REDUCE, SELL, WAIT,   *)
(* whose condition as documented holds of the latest bar's             *)
(* indicator values, with the stated confidence.                           *)
(***************************************************************************)
TableDecision(a) ==
    LET last  == a.rows[Len(a.rows)]
        score == a.score
        up    == last.EMA9 > last.EMA21 /\ last.EMA21 > last.EMA50
        down  == last.EMA9 < last.EMA21 /\ last.EMA21 < last.EMA50
        nearLower == 100 * last.Close <= 102 * last.BB_lower
        nearUpper == 100 * last.Close >= 98 * last.BB_upper
        strongSell == CountSignals(a.signals, "SELL", "STRONG")
        mediumSell == CountSignals(a.signals, "SELL", "MEDIUM")
    IN IF score >= 72 /\ up /\ last.MACD > last.MACD_signal /\ last.MACD_hist > 0
            /\ last.Close > last.EMA200 /\ last.RSI <= 70
       THEN Decision("BUY", IF score >= 80 THEN "HIGH" ELSE "MEDIUM")
       ELSE IF score >= 60 /\ (last.Close > last.EMA50 \/ last.RSI < 35 \/ nearLower)
                 /\ strongSell = 0
       THEN Decision("ACCUMULATE", "MEDIUM")
       ELSE IF 45 <= score /\ score < 60 /\ last.RSI <= 70 /\ ~down
       THEN Decision("HOLD", "LOW")
       ELSE IF 40 <= score /\ score < 55 /\ (last.RSI > 70 \/ nearUpper \/ down)
                 /\ mediumSell >= 1
       THEN Decision("REDUCE", "MEDIUM")
       ELSE IF score < 40 /\ strongSell >= 1
                 /\ (down \/ (last.Close < last.EMA200 /\ a.regime = "BEAR_TREND"))
       THEN Decision("SELL", IF score < 30 THEN "HIGH" ELSE "MEDIUM")
       ELSE Decision("WAIT", "LOW")

C2_DecisionTable ==
    (rec_out.done /\ Len(rec_in.rows) >= 5) =>
        /\ rec_out.action = TableDecision(rec_in).action
        /\ rec_out.confidence = TableDecision(rec_in).confidence


\* ---- scanner -----------------------------------------------------------
\* lines 244-249: every symbol is submitted once; the pool starts them in
\* submission order as workers become free
InitScan ==
    /\ mode = "scan"
    /\ status = [i \in Tasks |-> "queued"]
    /\ outcome = [i \in Tasks |-> NotFinished]
    /\ scan_pc = "loop"
    /\ done = 0
    /\ cb_calls = <<>>
    /\ results = <<>>
    /\ scan_args \in { [done |-> TRUE, min_fib_score |-> f, min_rr |-> r] :
                         f \in MinFibScores, r \in MinRRs }
    /\ table = <<>>
    /\ IdleScore /\ IdleRec /\ IdleBT /\ IdleStop /\ IdleTg /\ IdleMtf /\ IdleFib /\ IdleBell /\ IdlePat

\* variant: a pool that starts a queued task whether or not a worker is free
StartTask_NoLimit(i) ==
    /\ mode = "scan"
    /\ status[i] = "queued"
    /\ \A j \in Tasks : j < i => status[j] # "queued"
    /\ status' = [status EXCEPT ![i] = "running"]
    /\ UNCHANGED <<outcome, scan_pc, done, cb_calls, results, scan_args, table>>
    /\ KeepExceptScan

\* a free worker takes the oldest queued task
StartTask(i) ==
    /\ mode = "scan"
    /\ status[i] = "queued"
    /\ \A j \in Tasks : j < i => status[j] # "queued"
    /\ NumRunning < MaxWorkers
    /\ status' = [status EXCEPT ![i] = "running"]
    /\ UNCHANGED <<outcome, scan_pc, done, cb_calls, results, scan_args, table>>
    /\ KeepExceptScan

\* variant: the worker reports its own completion to the progress callback
FinishTask_Reports(i) ==
    /\ mode = "scan"
    /\ status[i] = "running"
    /\ \E o \in Outcomes :
          /\ status' = [status EXCEPT ![i] = "finished"]
          /\ outcome' = [outcome EXCEPT ![i] = o]
    /\ done' = done + 1
    /\ cb_calls' = Append(cb_calls, [completed |-> done + 1, total |-> NumSymbols,
                                     sym |-> i, task_state |-> "finished"])
    /\ UNCHANGED <<scan_pc, results, scan_args, table>>
    /\ KeepExceptScan

\* the worker function returns or raises: the future becomes done
FinishTask(i) ==
    /\ mode = "scan"
    /\ status[i] = "running"
    /\ \E o \in Outcomes :
          /\ status' = [status EXCEPT ![i] = "finished"]
          /\ outcome' = [outcome EXCEPT ![i] = o]
    /\ UNCHANGED <<scan_pc, done, cb_calls, results, scan_args, table>>
    /\ KeepExceptScan

\* the data fetch of the worker function never returns
HangTask(i) ==
    /\ mode = "scan"
    /\ status[i] = "running"
    /\ status' = [status EXCEPT ![i] = "hung"]
    /\ UNCHANGED <<outcome, scan_pc, done, cb_calls, results, scan_args, table>>
    /\ KeepExceptScan

Yielded == { cb_calls[k].sym : k \in 1..Len(cb_calls) }

as_completed_Submitted == { i \in Tasks : status[i] # "queued" /\ i \notin Yielded }

\* concurrent.futures.as_completed(future_map), called without a timeout:
\* the futures it can yield next are those that are done and not yet yielded
as_completed == { i \in Tasks : status[i] = "finished" /\ i \notin Yielded }

\* lines 250-260: one iteration of `for future in as_completed(future_map)`.
\* as_completed yields only futures that are done, so future.result(timeout=30)
\* returns or raises at once.
HandleCompleted(i) ==
    /\ mode = "scan"
    /\ scan_pc = "loop"
    /\ i \in as_completed
    /\ done' = done + 1
    /\ cb_calls' = Append(cb_calls, [completed |-> done + 1, total |-> NumSymbols,
                                     sym |-> i, task_state |-> status[i]])
    /\ results' = IF outcome[i].kind = "row" THEN Append(results, i) ELSE results
    /\ UNCHANGED <<status, outcome, scan_pc, scan_args, table>>
    /\ KeepExceptScan

\* lines 262-270: as_completed is exhausted only when every future is done;
\* leaving the `with` block joins the workers; then filter, sort, return
ReturnTable ==
    /\ mode = "scan"
    /\ scan_pc = "loop"
    /\ as_completed = {}
    /\ \A i \in Tasks : status[i] = "finished"
    /\ scan_pc' = "returned"
    /\ IF results = <<>>
       THEN table' = <<>>
       ELSE table' \in SortedByScore(
                         FilterRows(results, scan_args.min_fib_score, scan_args.min_rr))
    /\ UNCHANGED <<status, outcome, done, cb_calls, results, scan_args>>
    /\ KeepExceptScan

NextScan ==
    \/ \E i \in Tasks : StartTask(i)
    \/ \E i \in Tasks : FinishTask(i)
    \/ \E i \in Tasks : HangTask(i)
    \/ \E i \in Tasks : HandleCompleted(i)
    \/ ReturnTable

SpecScan == InitScan /\ [][NextScan]_vars


\* C3: the progress callback is invoked once per submitted task -- total_count
\* times in a run that returns -- whatever the task produced (a row, None or an
\* exception); every invocation reports a task that has already completed, the
\* k-th invocation carries completed_count = k, and so the last one carries
\* completed_count = total_count.
C3_ProgressCallback ==
    /\ \A k \in 1..Len(cb_calls) :
          /\ cb_calls[k].task_state = "finished"
          /\ cb_calls[k].completed = k
          /\ cb_calls[k].total = NumSymbols
          /\ \A j \in 1..Len(cb_calls) : j # k => cb_calls[j].sym # cb_calls[k].sym
    /\ scan_pc = "returned" =>
          /\ Len(cb_calls) = NumSymbols
          /\ Yielded = Tasks
          /\ cb_calls[Len(cb_calls)].completed = NumSymbols

\* a returned run in which one task gave a row, one returned None and one raised
C3_Witness ==
    /\ scan_pc = "returned"
    /\ Len(cb_calls) = NumSymbols
    /\ \E a, b, c \in Tasks : /\ outcome[a].kind = "row"
                              /\ outcome[b] = ReturnedNone
                              /\ outcome[c] = Raised

PassingTasks ==
    { i \in Tasks : /\ outcome[i].kind = "row"
                    /\ outcome[i].fib_score >= scan_args.min_fib_score
                    /\ outcome[i].risk_reward >= scan_args.min_rr }

\* C4: the returned table holds exactly the tasks that completed with a row whose
\* fib_score >= min_fib_score and risk_reward >= min_rr, each once, ordered by
\* non-increasing fib_score; tasks that returned None or raised contribute nothing.
C4_ScanResult ==
    scan_pc = "returned" =>
        /\ { table[k] : k \in 1..Len(table) } = PassingTasks
        /\ Len(table) = Cardinality(PassingTasks)
        /\ \A k \in 1..Len(table) - 1 :
              outcome[table[k]].fib_score >= outcome[table[k + 1]].fib_score

\* one task failed and three succeeded with scores 80, 50 and 30;
\* min_fib_score = 55 leaves the 80-scorer alone
C4_Witness ==
    /\ scan_pc = "returned"
    /\ scan_args.min_fib_score = 55
    /\ \E a \in Tasks : outcome[a].kind \in {"none", "raise"}
    /\ { outcome[i].fib_score : i \in { j \in Tasks : outcome[j].kind = "row" } } = {80, 50, 30}
    /\ Len(table) = 1
    /\ outcome[table[1]].fib_score = 80

\* rows excluded by the risk/reward minimum alone, and by the score minimum alone
C4_WitnessFilters ==
    /\ scan_pc = "returned"
    /\ \E i \in Tasks \ PassingTasks :
          outcome[i].kind = "row" /\ outcome[i].fib_score >= scan_args.min_fib_score
    /\ Len(table) >= 2

\* C5: a scan is never blocked before it returns: as long as it has not returned,
\* some step of the run (a worker starting or finishing, the loop handling a
\* completed task, the function returning) can still happen -- in particular
\* when a worker hangs.
C5_NeverBlocked == scan_pc = "returned" \/ ENABLED NextScan

\* the blocked run: one worker hangs, every other task is finished and handled
C5_HungState ==
    /\ scan_pc = "loop"
    /\ \E h \in Tasks : /\ status[h] = "hung"
                        /\ \A i \in Tasks \ {h} : status[i] = "finished" /\ i \in Yielded


\* ---- backtest ------------------------------------------------------------
BTLocals == [in_position |-> in_position, entry_price |-> entry_price,
             entry_date |-> entry_date, equity |-> equity, trades |-> trades]

InitBT ==
    /\ mode = "bt"
    /\ \E n \in BTLens, s \in Strategies, c \in Capitals, sl \in StopLosses :
         \E t \in Tails(n - 1) :
           bt_in = [done |-> TRUE, rows |-> <<BtMid>> \o t, strategy |-> s,
                    capital |-> c, sl_pct |-> sl]
    /\ bt_i = 2
    /\ bt_pc = "loop"
    /\ in_position = BTStart(bt_in.capital).in_position
    /\ entry_price = BTStart(bt_in.capital).entry_price
    /\ entry_date = BTStart(bt_in.capital).entry_date
    /\ equity = BTStart(bt_in.capital).equity
    /\ trades = BTStart(bt_in.capital).trades
    /\ equity_curve_y = <<100 * bt_in.capital>>          \* line 362
    /\ bt_out = NotCalled
    /\ IdleScore /\ IdleRec /\ IdleScan /\ IdleStop /\ IdleTg /\ IdleMtf /\ IdleFib /\ IdleBell /\ IdlePat

\* one iteration of `for i in range(2, len(df))`
BTProcessBar ==
    /\ mode = "bt"
    /\ bt_pc = "loop"
    /\ bt_i < Len(bt_in.rows)
    /\ LET st == BTStep(bt_in.rows, bt_in.strategy, bt_in.sl_pct, bt_i, BTLocals)
       IN /\ in_position' = st.in_position
          /\ entry_price' = st.entry_price
          /\ entry_date' = st.entry_date
          /\ equity' = st.equity
          /\ trades' = st.trades
          \* line 434: equity_curve_y.append(round(equity, 2))
          /\ equity_curve_y' = Append(equity_curve_y,
                                      RoundHalfEven(st.equity.num * 100, st.equity.den))
    /\ bt_i' = bt_i + 1
    /\ UNCHANGED <<bt_in, bt_pc, bt_out>>
    /\ KeepExceptBT

\* lines 444-448: peak = np.maximum.accumulate(eq_arr), the smallest
\* (eq - peak) / peak * 100, in hundredths of a percent
PeakAt(curve, k) == CHOOSE m \in {curve[j] : j \in 1..k} : \A j \in 1..k : curve[j] <= m
\* the division is done in two steps of a factor 100 to stay within 32 bits
DrawdownAt(curve, k) ==
    LET peak == PeakAt(curve, k)
        drop == (peak - curve[k]) * 100
    IN  0 - (100 * (drop \div peak) + RoundHalfEven((drop % peak) * 100, peak))
MaxDrawdown(curve) ==
    CHOOSE d \in {DrawdownAt(curve, k) : k \in 1..Len(curve)} :
        \A k \in 1..Len(curve) : d <= DrawdownAt(curve, k)

\* variant: a position still open after the last bar is sold at the last close
BTReturn_CloseOpen ==
    /\ mode = "bt"
    /\ bt_pc = "loop"
    /\ bt_i >= Len(bt_in.rows)
    /\ LET close == Bar(bt_in.rows, Len(bt_in.rows) - 1).Close
           eq == IF in_position
                 THEN FracMul(equity, Frac(close, entry_price)) ELSE equity
           trs == IF in_position
                  THEN Append(trades, [entry_date |-> entry_date,
                                       exit_date |-> Len(bt_in.rows) - 1,
                                       entry_price |-> entry_price, exit_price |-> close,
                                       pnl_pct |-> RoundHalfEven((close - entry_price) * 10000,
                                                                 entry_price),
                                       win |-> close > entry_price])
                  ELSE trades
       IN /\ equity' = eq
          /\ trades' = trs
          /\ in_position' = FALSE
          /\ bt_out' = [done |-> TRUE] @@ BTStats(bt_in.capital, eq, trs)
                        @@ [max_drawdown |-> IF trs = <<>> THEN 0
                                             ELSE MaxDrawdown(equity_curve_y)]
    /\ bt_pc' = "returned"
    /\ UNCHANGED <<bt_in, bt_i, entry_price, entry_date, equity_curve_y>>
    /\ KeepExceptBT

\* the loop is over: statistics and return
BTReturn ==
    /\ mode = "bt"
    /\ bt_pc = "loop"
    /\ bt_i >= Len(bt_in.rows)
    /\ bt_out' = [done |-> TRUE] @@ BTStats(bt_in.capital, equity, trades)
                  @@ [max_drawdown |-> IF trades = <<>> THEN 0
                                       ELSE MaxDrawdown(equity_curve_y)]
    /\ bt_pc' = "returned"
    /\ UNCHANGED <<bt_in, bt_i, in_position, entry_price, entry_date, equity, trades,
                   equity_curve_y>>
    /\ KeepExceptBT

NextBT == BTProcessBar \/ BTReturn

SpecBT == InitBT /\ [][NextBT]_vars


EntrySignalAt(i) == BTSignals(bt_in.rows, bt_in.strategy, i).entry

ExitRuleAt(i, entry) ==
    \/ BTSignals(bt_in.rows, bt_in.strategy, i).exit
    \/ Bar(bt_in.rows, i).Close * 1000 <= entry * (1000 - bt_in.sl_pct)

\* the bar after which the k-th position could be opened: the previous exit,
\* or bar 1 for the first one
FlatSince(k) == IF k = 1 THEN 1 ELSE trades[k - 1].exit_date

\* a position opened at bar e (at that bar's close) while flat since bar f:
\* e is the first bar after f with an entry signal
OpenedAt(e, price, f) ==
    /\ f < e
    /\ EntrySignalAt(e)
    /\ price = Bar(bt_in.rows, e).Close
    /\ \A j \in (f + 1)..(e - 1) : ~EntrySignalAt(j)

\* C6: one position at a time.  Every logged trade was opened at the first bar
\* with an entry signal after the previous exit, at that bar's close, and closed
\* at the first later bar where the exit rule fires or close <= entry_price *
\* (1 - sl_pct); so each exit bar is strictly after its entry bar and each entry
\* bar strictly after the previous exit bar.  The same holds of the position
\* that is open, and when flat no entry signal has been left unused.
C6_OnePosition ==
    /\ \A k \in 1..Len(trades) :
          LET t == trades[k]
          IN /\ OpenedAt(t.entry_date, t.entry_price, FlatSince(k))
             /\ t.entry_date < t.exit_date
             /\ t.exit_date < bt_i
             /\ ExitRuleAt(t.exit_date, t.entry_price)
             /\ t.exit_price = Bar(bt_in.rows, t.exit_date).Close
             /\ \A j \in (t.entry_date + 1)..(t.exit_date - 1) : ~ExitRuleAt(j, t.entry_price)
    /\ in_position =>
          /\ OpenedAt(entry_date, entry_price, FlatSince(Len(trades) + 1))
          /\ entry_date < bt_i
          /\ \A j \in (entry_date + 1)..(bt_i - 1) : ~ExitRuleAt(j, entry_price)
    /\ (mode = "bt" /\ ~in_position) =>
          \A j \in (FlatSince(Len(trades) + 1) + 1)..(bt_i - 1) : ~EntrySignalAt(j)

\* two trades in the log, one closed by the strategy's exit signal and one by
\* the stop loss alone
C6_Witness ==
    /\ Len(trades) >= 2
    /\ \E k \in 1..Len(trades) :
          ~BTSignals(bt_in.rows, bt_in.strategy, trades[k].exit_date).exit
    /\ \E k \in 1..Len(trades) :
          BTSignals(bt_in.rows, bt_in.strategy, trades[k].exit_date).exit

\* an entry signal fired while the position was open and was ignored
C6_WitnessIgnored ==
    /\ in_position
    /\ \E j \in (entry_date + 1)..(bt_i - 1) : EntrySignalAt(j)

\* frames that agree with the given one on the bars processed so far: the frame
\* cut after them, and the frames continuing with k more bars of one kind
Continuations(k) == {<<>>} \cup { [j \in 1..k |-> b] : b \in BtBars }

\* C7: no look-ahead.  Whatever bars follow the bars processed so far, the
\* position state, equity and trade log are the same: running the loop up to bar
\* bt_i - 1 over a frame that agrees with the given one on bars 0 .. bt_i - 1
\* gives the current locals, for every strategy.
C7_NoLookAhead ==
    mode = "bt" =>
        \A tail \in Continuations(Len(bt_in.rows) - bt_i) :
            BTRun(SubSeq(bt_in.rows, 1, bt_i) \o tail, bt_in.strategy,
                  bt_in.capital, bt_in.sl_pct, bt_i) = BTLocals

\* the combined-score strategy has opened and closed a position while bars of
\* the frame are still to come
C7_Witness ==
    /\ mode = "bt"
    /\ bt_in.strategy = "Combined Signal Score > 65"
    /\ Len(trades) >= 1
    /\ bt_i < Len(bt_in.rows)

RECURSIVE TradeProduct(_, _)
TradeProduct(start, trs) ==
    IF trs = <<>> THEN start
    ELSE LET t == trs[Len(trs)]
         IN FracMul(TradeProduct(start, SubSeq(trs, 1, Len(trs) - 1)),
                    Frac(t.exit_price, t.entry_price))

\* C8: equity is the capital times the product over the logged trades of
\* exit price / entry price -- so it changes only when a trade is closed, by the
\* factor exit/entry -- and stays strictly positive; the returned total_return is
\* (equity - capital) / capital * 100 to the 2 decimals it is rounded to.
C8_Equity ==
    mode = "bt" =>
        /\ equity = TradeProduct(Frac(bt_in.capital, 1), trades)
        /\ equity.num > 0 /\ equity.den > 0
        /\ bt_out.done =>
              LET diff == Frac(equity.num - bt_in.capital * equity.den,
                               bt_in.capital * equity.den)
                  err  == bt_out.total_return * diff.den - diff.num * 10000
              IN 2 * Abs(err) <= diff.den

\* returned after a gain of 10% and a loss of 10%: total_return is -1.00
C8_Witness ==
    /\ bt_pc = "returned"
    /\ Len(trades) = 2
    /\ trades[1].exit_price * 10 = trades[1].entry_price * 11
    /\ trades[2].exit_price * 10 = trades[2].entry_price * 9
    /\ equity = Frac(bt_in.capital * 99, 100)
    /\ bt_out.total_return = 0 - 100


\* ---- scanner stop loss ---------------------------------------------------
InitStop ==
    /\ mode = "stop"
    /\ sl_in \in StopInputs
    /\ sl_out = NotCalled
    /\ IdleScore /\ IdleRec /\ IdleScan /\ IdleBT /\ IdleTg /\ IdleMtf /\ IdleFib /\ IdleBell /\ IdlePat

CallScanStop ==
    /\ mode = "stop"
    /\ ~sl_out.done
    /\ \E tie \in Ties, err \in FloatErrs :
          sl_out' = [done |-> TRUE, stop_loss |-> ScanStopLoss(sl_in, tie),
                     zone_index |-> ZoneIndex(sl_in, err),
                     zone |-> ZoneName(ZoneIndex(sl_in, err))]
    /\ UNCHANGED sl_in
    /\ KeepExceptStop

NextStop == CallScanStop

SpecStop == InitStop /\ [][NextStop]_vars

HalfCent == 500

\* C9: the scanner's stop loss is on the losing side of the current price and
\* within the band of its mode, the limit that is rounded to 2 decimals being
\* met to half a cent: single-timeframe uptrend 0.85p - 0.005 <= sl <= 0.98p,
\* downtrend 1.02p <= sl <= 1.15p + 0.005; intraday uptrend
\* 0.97p - 0.005 <= sl <= 0.99p, downtrend 1.01p <= sl <= 1.03p + 0.005.
C9_StopLossBand ==
    sl_out.done =>
        LET p    == sl_in.current
            sl   == sl_out.stop_loss
            far  == IF sl_in.intraday THEN 3 ELSE 15
            near == IF sl_in.intraday THEN 1 ELSE 2
        IN IF sl_in.is_uptrend
           THEN /\ sl < p
                /\ 100 * sl <= (100 - near) * p
                /\ 100 * sl >= (100 - far) * p - 100 * HalfCent
           ELSE /\ sl > p
                /\ 100 * sl >= (100 + near) * p
                /\ 100 * sl <= (100 + far) * p + 100 * HalfCent

\* the 15% floor applies (the ATR stop is 75% below the price) and rounding to
\* 2 decimals takes the stop loss just below 0.85p
C9_Witness ==
    /\ sl_out.done /\ ~sl_in.intraday /\ sl_in.is_uptrend
    /\ sl_in.atr_col = Num(sl_in.current \div 2)
    /\ 100 * sl_out.stop_loss < 85 * sl_in.current
    /\ 100 * sl_out.stop_loss >= 85 * sl_in.current - 100 * HalfCent

\* intraday, price 10.20, ATR 5% of it: the 3% limit 9.894 is rounded to 9.89
C9_WitnessIntraday ==
    /\ sl_out.done /\ sl_in.intraday /\ sl_in.is_uptrend
    /\ sl_in.current = 1020000
    /\ sl_in.atr_col = Num(51000)
    /\ sl_out.stop_loss = 989000

\* the 2% ceiling applies (the Fibonacci stop is above the price, ATR is NaN)
C9_WitnessNear ==
    /\ sl_out.done /\ ~sl_in.intraday /\ sl_in.is_uptrend
    /\ sl_in.atr_col.nan
    /\ fp(sl_in, 786) > sl_in.current
    /\ 100 * sl_out.stop_loss = 98 * sl_in.current

\* C9 as stated for the intraday mode, without a rounding allowance:
\* uptrend 0.97p <= sl <= 0.99p, downtrend 1.01p <= sl <= 1.03p.
C9_IntradayExact ==
    (sl_out.done /\ sl_in.intraday) =>
        LET p  == sl_in.current
            sl == sl_out.stop_loss
        IN IF sl_in.is_uptrend
           THEN 97 * p <= 100 * sl /\ 100 * sl <= 99 * p
           ELSE 101 * p <= 100 * sl /\ 100 * sl <= 103 * p

\* C9 as stated for the single-timeframe mode, rounding allowed for:
C9_SingleRounded ==
    (sl_out.done /\ ~sl_in.intraday) =>
        LET p  == sl_in.current
            sl == sl_out.stop_loss
        IN IF sl_in.is_uptrend
           THEN 85 * p - 100 * HalfCent <= 100 * sl /\ 100 * sl <= 98 * p + 100 * HalfCent
           ELSE 102 * p - 100 * HalfCent <= 100 * sl /\ 100 * sl <= 115 * p + 100 * HalfCent


\* ---- price targets ---------------------------------------------------------
InitTargets ==
    /\ mode = "targets"
    /\ tg_in \in TargetInputs
    /\ tg_out = NotCalled
    /\ IdleScore /\ IdleRec /\ IdleScan /\ IdleBT /\ IdleStop /\ IdleMtf /\ IdleFib /\ IdleBell /\ IdlePat

CallPriceTargets ==
    /\ mode = "targets"
    /\ ~tg_out.done
    /\ \E tie \in Ties :
          tg_out' = [done |-> TRUE] @@ calculate_price_targets(tg_in, tie)
    /\ UNCHANGED tg_in
    /\ KeepExceptTg

NextTargets == CallPriceTargets

SpecTargets == InitTargets /\ [][NextTargets]_vars

\* C10: the stop_loss returned by calculate_price_targets is strictly below
\* current_price, so the risk amount is positive and every target is above
\* current_price.
C10_StopBelowPrice ==
    tg_out.done => tg_out.stop_loss < tg_in.current_price

\* the same with current_price equal to the frame's last close
C10_StopBelowLastClose ==
    (tg_out.done /\ tg_in.current_price = tg_in.last_close) =>
        tg_out.stop_loss < tg_in.current_price

\* a stop loss at or above the price gives targets at or below the price
C10_TargetsBelow ==
    (tg_out.done /\ tg_out.stop_loss > tg_in.current_price) =>
        /\ tg_out.targets[1] < tg_in.current_price
        /\ tg_out.targets[2] < tg_in.current_price
        /\ tg_out.risk_reward = 500


\* C11: every returned Targets object is ordered
\* stop_loss < buy_zone.low <= buy_zone.high < targets[0] < targets[1].
C11_TargetsOrdered ==
    tg_out.done =>
        /\ tg_out.stop_loss < tg_out.buy_zone.low
        /\ tg_out.buy_zone.low <= tg_out.buy_zone.high
        /\ tg_out.buy_zone.high < tg_out.targets[1]
        /\ tg_out.targets[1] < tg_out.targets[2]

\* the part of the ordering that does hold: stop_loss < buy_zone.low <= buy_zone.high
\* (for an ATR of at least a cent)
C11_StopBelowZone ==
    tg_out.done =>
        /\ tg_out.stop_loss < tg_out.buy_zone.low
        /\ tg_out.buy_zone.low <= tg_out.buy_zone.high

\* the ordering with current_price equal to the frame's last close and a stop
\* loss below the price
C11_OrderedAtLastClose ==
    (tg_out.done /\ tg_in.current_price = tg_in.last_close
                 /\ tg_out.stop_loss < tg_in.current_price) =>
        tg_out.buy_zone.high < tg_out.targets[1]


\* C12: a price between swing_low and swing_high is assigned to exactly one of
\* the 6 zones, never to "outside"; a price on a boundary shared by two zones
\* gets the zone with the lower index.
C12_ZoneCover ==
    sl_out.done =>
        /\ sl_out.zone_index \in 1..6
        /\ sl_out.zone.r0 = FibRatios[sl_out.zone_index]
        /\ \A k \in 1..5 :
              sl_in.current = fp(sl_in, FibRatios[k + 1]) => sl_out.zone_index <= k

\* what holds of the lookup: a price strictly inside the swing range gets the
\* first zone that contains it
C12_ZoneInside ==
    (sl_out.done /\ sl_in.swing_low < sl_in.current /\ sl_in.current < sl_in.swing_high) =>
        /\ sl_out.zone_index \in 1..6
        /\ \A k \in 1..5 :
              sl_in.current = fp(sl_in, FibRatios[k + 1]) => sl_out.zone_index <= k

\* a price on the 50% boundary is given the 38.2-50 zone
C12_WitnessBoundary ==
    /\ sl_out.done
    /\ sl_in.current = fp(sl_in, 500)
    /\ sl_out.zone_index = 3

\* the price is at the far swing point and falls outside every zone
C12_WitnessOutside ==
    /\ sl_out.done
    /\ sl_in.current \in {sl_in.swing_low, sl_in.swing_high}
    /\ sl_out.zone_index = 0


\* ---- multi-timeframe scan ----------------------------------------------
\* scanner.py run_multi_timeframe_scan.  Scores are in tenths, risk_reward in
\* hundredths, prices in cents.
NumMtfSymbols == 2
MtfSymbols == 1..NumMtfSymbols
MtfPeriods == <<"3mo", "6mo", "1y">>
MtfTasks == { <<sym, MtfPeriods[i]>> : sym \in MtfSymbols, i \in 1..3 }

\* decimal digits of a natural number, as a sequence of characters
RECURSIVE Digits(_)
Digits(n) ==
    LET d == <<"0", "1", "2", "3", "4", "5", "6", "7", "8", "9">>
    IN IF n < 10 THEN <<d[n + 1]>> ELSE Digits(n \div 10) \o <<d[(n % 10) + 1]>>

\* f"{r*100:.1f}" of a ratio r given in thousandths ("23.6", "100.0")
Fmt1(r) == Digits(r \div 10) \o <<".">> \o Digits(r % 10)

\* _scan_one lines 89-99: the characters of zone_name ("-" for the dash, "*" for
\* the star; the name of "outside" has no digit and no star)
ZoneText(k) ==
    IF k = 0 THEN <<"o", "u", "t">>
    ELSE Fmt1(FibRatios[k]) \o <<"-">> \o Fmt1(FibRatios[k + 1]) \o <<"%">>
         \o (IF ZoneName(k).star THEN <<" ", "*">> ELSE <<>>)

\* Python's `sub in z`
Contains(z, sub) ==
    \E i \in 1..(Len(z) - Len(sub) + 1) : SubSeq(z, i, i + Len(sub) - 1) = sub

\* variant: A+ only above 75
Grade_Late(fib_score) ==
    IF fib_score > 750 THEN "A+"
    ELSE IF fib_score >= 650 THEN "A"
    ELSE IF fib_score >= 550 THEN "B+"
    ELSE IF fib_score >= 450 THEN "B" ELSE "C"

\* _scan_one lines 187-191
Grade(fib_score) ==
    IF fib_score >= 750 THEN "A+"
    ELSE IF fib_score >= 650 THEN "A"
    ELSE IF fib_score >= 550 THEN "B+"
    ELSE IF fib_score >= 450 THEN "B" ELSE "C"

\* the dict returned by _scan_one (lines 197-222), the fields the merge reads
ScanResult(sym, price, k, up, fib_score, sl, tp1, tp2, rr) ==
    [kind |-> "row", symbol |-> sym, price |-> price, fib_score |-> fib_score,
     grade |-> Grade(fib_score), zone |-> ZoneText(k), stop_loss |-> sl,
     tp1 |-> tp1, tp2 |-> tp2, risk_reward |-> rr, is_uptrend |-> up]

\* what _scan_one can return for a (symbol, period): the price is the symbol's
\* last close in every period, zone, score and levels depend on the period
MtfResults(sym, p) ==
    IF sym = 1
    THEN IF p = "6mo"
         THEN {ScanResult(1, 1000, 2, TRUE, 620, 950, 1060, 1100, 200),
               ScanResult(1, 1000, 3, TRUE, 851, 960, 1050, 1090, 120)}
         ELSE {ScanResult(1, 1000, 2, TRUE, 620, 940, 1070, 1120, 180),
               ScanResult(1, 1000, 4, TRUE, 851, 970, 1040, 1080, 150)}
    ELSE IF p = "6mo"
         THEN {ScanResult(sym, 250, 1, FALSE, 385, 262, 240, 230, 80),
               ScanResult(sym, 250, 4, TRUE, 550, 240, 265, 280, 150)}
         ELSE {ScanResult(sym, 250, 6, FALSE, 385, 260, 238, 225, 120),
               ScanResult(sym, 250, 3, TRUE, 550, 242, 262, 275, 150)}

MtfOutcomes(sym, p) == {ReturnedNone, Raised} \cup MtfResults(sym, p)

\* lines 308-311: raw[sym][p] = result, a new inner dict for a new symbol
RawIndex(r, sym) == IF \E i \in 1..Len(r) : r[i].sym = sym
                    THEN CHOOSE i \in 1..Len(r) : r[i].sym = sym ELSE 0

RawPut(r, sym, p, result) ==
    LET item == [p |-> p, r |-> result]
        i == RawIndex(r, sym)
    IN IF i = 0 THEN Append(r, [sym |-> sym, periods |-> <<item>>])
       ELSE [r EXCEPT ![i].periods = Append(@, item)]

RECURSIVE SumScores(_)
SumScores(prs) == IF prs = <<>> THEN 0 ELSE prs[1].r.fib_score + SumScores(Tail(prs))

\* round(x, 1) of x = n/d tenths; a value half-way between two tenths goes
\* either way (it depends on the binary representation of the float)
Round1(n, d, tie) ==
    LET q == n \div d
        r == n - q * d
    IN IF 2 * r < d THEN q ELSE IF 2 * r > d THEN q + 1 ELSE q + tie

\* line 326
PrimaryOf(prs) ==
    IF \E i \in 1..Len(prs) : prs[i].p = "6mo"
    THEN prs[CHOOSE i \in 1..Len(prs) : prs[i].p = "6mo"].r
    ELSE prs[1].r

\* lines 340-343
AllInGolden(prs) ==
    \A i \in 1..Len(prs) :
        LET z == prs[i].r.zone
        IN \/ Contains(z, <<"3", "8">>) \/ Contains(z, <<"5", "0">>)
           \/ Contains(z, <<"6", "1">>) \/ Contains(z, <<"*">>)

\* lines 344-346
ConfluenceBonus(prs) ==
    IF Len(prs) >= 3 /\ AllInGolden(prs) THEN 15
    ELSE IF Len(prs) >= 2 /\ AllInGolden(prs) THEN 10
    ELSE IF Len(prs) >= 2 THEN 5 ELSE 0

\* line 348
MtfScore(prs, tie) ==
    Min2(1000, Round1(SumScores(prs) + 10 * ConfluenceBonus(prs) * Len(prs), Len(prs), tie))

\* variant: counts the periods at all, not the periods that pass
Passed_All(prs, min_fib_score) == Len(prs)

\* line 351
Passed(prs, min_fib_score) ==
    Cardinality({ i \in 1..Len(prs) : prs[i].r.fib_score >= 10 * min_fib_score })

\* lines 352-355
Confluence(passed) ==
    IF passed = 3 THEN "all 3 Timeframe"
    ELSE IF passed = 2 THEN "2 of 3 Timeframe"
    ELSE IF passed = 1 THEN "1 Timeframe" ELSE "none"

\* lines 371-375
Regrade(mtf_score) ==
    IF mtf_score >= 800 THEN "A+"
    ELSE IF mtf_score >= 700 THEN "A"
    ELSE IF mtf_score >= 580 THEN "B+"
    ELSE IF mtf_score >= 450 THEN "B" ELSE "C"

PeriodField(prs, p, field, default) ==
    IF \E i \in 1..Len(prs) : prs[i].p = p
    THEN prs[CHOOSE i \in 1..Len(prs) : prs[i].p = p].r[field]
    ELSE default

\* variant: the row starts from the first result inserted
MergeBase_First(prs) == prs[1].r

\* line 327 / 358
MergeBase(prs) == PrimaryOf(prs)

\* lines 322-377: the row of one symbol
MergeRow(prs, min_fib_score, tie) ==
    LET primary == MergeBase(prs)
        mtf_score == MtfScore(prs, tie)
        passed == Passed(prs, min_fib_score)
    IN [symbol |-> primary.symbol, price |-> primary.price, zone |-> primary.zone,
        stop_loss |-> primary.stop_loss, tp1 |-> primary.tp1, tp2 |-> primary.tp2,
        risk_reward |-> primary.risk_reward, is_uptrend |-> primary.is_uptrend,
        fib_score |-> primary.fib_score,
        mtf_score |-> mtf_score, confluence |-> Confluence(passed),
        passed_tfs |-> passed, n_periods |-> Len(prs),
        score_3mo |-> PeriodField(prs, "3mo", "fib_score", 0 - 1),
        score_6mo |-> PeriodField(prs, "6mo", "fib_score", 0 - 1),
        score_1y |-> PeriodField(prs, "1y", "fib_score", 0 - 1),
        zone_3mo |-> PeriodField(prs, "3mo", "zone", <<"-">>),
        zone_6mo |-> PeriodField(prs, "6mo", "zone", <<"-">>),
        zone_1y |-> PeriodField(prs, "1y", "zone", <<"-">>),
        grade |-> Regrade(mtf_score)]

\* lines 319-378: one row per key of raw, in insertion order
Merged(r, min_fib_score, ties) ==
    [i \in 1..Len(r) |-> MergeRow(r[i].periods, min_fib_score, ties[r[i].sym])]

\* lines 383-384
MtfFilter(rows, min_fib_score, min_rr) ==
    SelectSeq(rows, LAMBDA row : /\ row.mtf_score >= 10 * min_fib_score
                                 /\ row.risk_reward >= 10 * min_rr)

\* line 385: sort_values(['passed_tfs', 'mtf_score'], ascending=False)
MtfBefore(a, b) ==
    \/ a.passed_tfs > b.passed_tfs
    \/ a.passed_tfs = b.passed_tfs /\ a.mtf_score >= b.mtf_score

Arrangements(rows) ==
    { [i \in 1..Len(rows) |-> rows[f[i]]] :
        f \in { g \in [1..Len(rows) -> 1..Len(rows)] :
                  \A i, j \in 1..Len(rows) : i # j => g[i] # g[j] } }

MtfSorted(rows) ==
    { t \in Arrangements(rows) : \A i \in 1..(Len(t) - 1) : MtfBefore(t[i], t[i + 1]) }

InitMtf ==
    /\ mode = "mtf"
    /\ mtf_pc = "loop"
    /\ mtf_todo = MtfTasks
    /\ raw = <<>>
    /\ mtf_args \in { [done |-> TRUE, min_fib_score |-> 40, min_rr |-> 10],
                      [done |-> TRUE, min_fib_score |-> 55, min_rr |-> 15] }
    /\ mtf_table = <<>>
    /\ IdleScore /\ IdleRec /\ IdleScan /\ IdleBT /\ IdleStop /\ IdleTg /\ IdleFib /\ IdleBell /\ IdlePat

\* lines 299-313: as_completed yields a future; a result that is not None is
\* stored, None and an exception leave raw alone
MtfHandleCompleted ==
    /\ mode = "mtf"
    /\ mtf_pc = "loop"
    /\ \E t \in mtf_todo :
         \E o \in MtfOutcomes(t[1], t[2]) :
            /\ mtf_todo' = mtf_todo \ {t}
            /\ raw' = IF o.kind = "row" THEN RawPut(raw, t[1], t[2], o) ELSE raw
    /\ UNCHANGED <<mtf_pc, mtf_args, mtf_table>>
    /\ KeepExceptMtf

\* lines 315-386: merge, filter, sort, return
MtfReturn ==
    /\ mode = "mtf"
    /\ mtf_pc = "loop"
    /\ mtf_todo = {}
    /\ \E ties \in [MtfSymbols -> Ties] :
          mtf_table' \in MtfSorted(MtfFilter(Merged(raw, mtf_args.min_fib_score, ties),
                                             mtf_args.min_fib_score, mtf_args.min_rr))
    /\ mtf_pc' = "returned"
    /\ UNCHANGED <<mtf_todo, raw, mtf_args>>
    /\ KeepExceptMtf

NextMtf == MtfHandleCompleted \/ MtfReturn

SpecMtf == InitMtf /\ [][NextMtf]_vars


\* the results stored in raw for the symbol of a returned row
PeriodsOf(row) == raw[RawIndex(raw, row.symbol)].periods

\* the price of a result lies in the golden zone (38.2%-61.8% retracement)
InGoldenZone(r) == r.zone \in {ZoneText(3), ZoneText(4)}

GoldenBonus(prs) ==
    LET golden == \A i \in 1..Len(prs) : InGoldenZone(prs[i].r)
    IN IF Len(prs) >= 3 /\ golden THEN 15
       ELSE IF Len(prs) >= 2 /\ golden THEN 10
       ELSE IF Len(prs) >= 2 THEN 5 ELSE 0

\* C13: mtf_score = min(100, mean of the evaluated periods' fib_scores + bonus),
\* to one decimal, with bonus 15 only for 3 periods all in the golden zone, 10
\* only for 2 or more periods all in the golden zone, and 5 (2 or more periods)
\* or 0 (one period) when some period is outside the golden zone.
C13_MtfScore ==
    mtf_pc = "returned" =>
        \A i \in 1..Len(mtf_table) :
            LET prs == PeriodsOf(mtf_table[i])
            IN \E tie \in Ties :
                  mtf_table[i].mtf_score =
                      Min2(1000, Round1(SumScores(prs) + 10 * GoldenBonus(prs) * Len(prs),
                                        Len(prs), tie))

\* what holds: the same formula with the bonus decided by the zone names
\* (every zone between 23.6% and 78.6% counts)
C13_MtfScoreByName ==
    mtf_pc = "returned" =>
        \A i \in 1..Len(mtf_table) :
            LET prs == PeriodsOf(mtf_table[i])
                named == \A j \in 1..Len(prs) :
                            prs[j].r.zone \in { ZoneText(k) : k \in 2..5 }
                bonus == IF Len(prs) >= 3 /\ named THEN 15
                         ELSE IF Len(prs) >= 2 /\ named THEN 10
                         ELSE IF Len(prs) >= 2 THEN 5 ELSE 0
            IN \E tie \in Ties :
                  mtf_table[i].mtf_score =
                      Min2(1000, Round1(SumScores(prs) + 10 * bonus * Len(prs), Len(prs), tie))

\* three periods in the 23.6-38.2% zone, score 62.0 each, returned with 77.0
C13_WitnessNotGolden ==
    /\ mtf_pc = "returned"
    /\ \E i \in 1..Len(mtf_table) :
          /\ mtf_table[i].n_periods = 3
          /\ \A j \in 1..3 : PeriodsOf(mtf_table[i])[j].r.zone = ZoneText(2)
          /\ mtf_table[i].mtf_score = 770


\* the label that names a count of passing periods
LabelOfCount == [n \in 0..3 |-> IF n = 3 THEN "all 3 Timeframe"
                                ELSE IF n = 2 THEN "2 of 3 Timeframe"
                                ELSE IF n = 1 THEN "1 Timeframe" ELSE "none"]

\* C14: passed_tfs is the number of evaluated periods whose fib_score is at
\* least min_fib_score, 0 <= passed_tfs <= evaluated periods <= 3, and the
\* confluence label names that count.
C14_PassedTfs ==
    mtf_pc = "returned" =>
        \A i \in 1..Len(mtf_table) :
            LET row == mtf_table[i]
                prs == PeriodsOf(row)
                count == Cardinality({ j \in 1..Len(prs) :
                                         prs[j].r.fib_score >= 10 * mtf_args.min_fib_score })
            IN /\ row.n_periods = Len(prs)
               /\ row.passed_tfs = count
               /\ 0 <= row.passed_tfs /\ row.passed_tfs <= row.n_periods /\ row.n_periods <= 3
               /\ row.confluence = LabelOfCount[count]

\* a symbol passing in exactly 2 of its 3 periods
C14_Witness ==
    /\ mtf_pc = "returned"
    /\ \E i \in 1..Len(mtf_table) :
          /\ mtf_table[i].n_periods = 3
          /\ Cardinality({ j \in 1..3 : PeriodsOf(mtf_table[i])[j].r.fib_score
                                          >= 10 * mtf_args.min_fib_score }) = 2
          /\ mtf_table[i].passed_tfs = 2
          /\ mtf_table[i].confluence = "2 of 3 Timeframe"

\* a returned row none of whose periods passes
C14_WitnessNone ==
    /\ mtf_pc = "returned"
    /\ \E i \in 1..Len(mtf_table) :
          mtf_table[i].passed_tfs = 0 /\ mtf_table[i].confluence = "none"


BaseFields == {"price", "zone", "stop_loss", "tp1", "tp2", "risk_reward", "is_uptrend"}

\* C15: the returned table has at most one row per symbol, a row only for a
\* symbol with at least one stored (symbol, period) result, and when the 6mo
\* result exists the row's base fields are those of the 6mo result.
C15_OneRowPerSymbol ==
    mtf_pc = "returned" =>
        /\ \A i, j \in 1..Len(mtf_table) :
              i # j => mtf_table[i].symbol # mtf_table[j].symbol
        /\ \A i \in 1..Len(mtf_table) :
              LET row == mtf_table[i]
              IN /\ RawIndex(raw, row.symbol) # 0
                 /\ Len(PeriodsOf(row)) >= 1
                 /\ \A j \in 1..Len(PeriodsOf(row)) :
                       PeriodsOf(row)[j].p = "6mo" =>
                           \A f \in BaseFields : row[f] = PeriodsOf(row)[j].r[f]

\* the 6mo result was stored after a different result of another period and
\* the row carries the 6mo levels
C15_Witness ==
    /\ mtf_pc = "returned"
    /\ \E i \in 1..Len(mtf_table) :
          LET prs == PeriodsOf(mtf_table[i])
          IN /\ Len(prs) >= 2
             /\ prs[1].p # "6mo"
             /\ prs[2].p = "6mo"
             /\ prs[1].r.zone # prs[2].r.zone
             /\ mtf_table[i].stop_loss = prs[2].r.stop_loss
             /\ mtf_table[i].zone = prs[2].r.zone

\* every task of symbol 2 failed: the table has the row of symbol 1 only
C15_WitnessDropped ==
    /\ mtf_pc = "returned"
    /\ RawIndex(raw, 2) = 0
    /\ Len(mtf_table) = 1
    /\ mtf_table[1].symbol = 1


C16_WitnessBear ==
    /\ sc_out.done
    /\ Len(df.rows) = MaxRows
    /\ sc_out.regime = "BEAR_TREND"
    /\ get_market_regime(SubSeq(df.rows, 1, MaxRows - 1)) = "BULL_TREND"

C16_WitnessTransition == sc_out.done /\ sc_out.regime = "TRANSITION"

C16_WitnessEmpty == sc_out.done /\ Len(df.rows) = 0 /\ sc_out.regime = "SIDEWAYS"


\* the signals of a list that do not come from the OBV rule
NotObv(sigs) ==
    SelectSeq(sigs, LAMBDA x : x.rule \notin {"OBV accumulation", "OBV distribution"})

\* C17: on a frame that lacks only the OBV column every rule other than the
\* OBV rule gives the same signals (and so the same score deltas) as on the same
\* frame with OBV present.
C17_RuleIsolation ==
    (sc_out.done /\ ~df.hasOBV) =>
        sc_out.signals = NotObv(calculate_signal_score([df EXCEPT !.hasOBV = TRUE]).signals)

\* what holds: the same for frames of fewer than 10 bars
C17_IsolationShortFrames ==
    (sc_out.done /\ ~df.hasOBV /\ Len(df.rows) < 10) =>
        sc_out.signals = NotObv(calculate_signal_score([df EXCEPT !.hasOBV = TRUE]).signals)

\* 10 bars, no OBV column, volume 2.5 times the average on a rising close: the
\* volume spike signal is missing
C17_WitnessSuppressed ==
    /\ sc_out.done /\ ~df.hasOBV /\ Len(df.rows) = 10
    /\ LastRow(df).Vol_ratio > 20 /\ LastRow(df).Close > PrevRow(df).Close
    /\ \A i \in 1..Len(sc_out.signals) : sc_out.signals[i].rule # "Volume spike up"


HasSignal(sigs, sig) == \E i \in 1..Len(sigs) : sigs[i] = sig

CrossedUp(f) ==
    /\ Len(f.rows) >= 2
    /\ PrevRow(f).EMA9 < PrevRow(f).EMA21
    /\ LastRow(f).EMA9 > LastRow(f).EMA21

AlignedUp(f) ==
    /\ LastRow(f).EMA9 > LastRow(f).EMA21
    /\ LastRow(f).EMA21 > LastRow(f).EMA50
    /\ LastRow(f).EMA50 > LastRow(f).EMA200

C18_CrossFiveBars ==
    (sc_out.done /\ CrossedUp(df) /\ Len(df.rows) >= 5) =>
        /\ HasSignal(sc_out.signals, Sig("BUY", "STRONG", "Golden Cross"))
        /\ (AlignedUp(df) /\ LastRow(df).Close > LastRow(df).EMA9) =>
              HasSignal(sc_out.signals, Sig("BUY", "STRONG", "EMA alignment up"))

\* cross and alignment on a 10-bar frame whose close is below EMA9: the cross
\* is reported, the alignment is not
C18_WitnessNoAlignment ==
    /\ sc_out.done /\ Len(df.rows) = 10 /\ CrossedUp(df) /\ AlignedUp(df)
    /\ HasSignal(sc_out.signals, Sig("BUY", "STRONG", "Golden Cross"))
    /\ ~HasSignal(sc_out.signals, Sig("BUY", "STRONG", "EMA alignment up"))

\* cross on a 10-bar frame reported together with the alignment
C18_WitnessBoth ==
    /\ sc_out.done /\ Len(df.rows) = 10 /\ CrossedUp(df) /\ AlignedUp(df)
    /\ HasSignal(sc_out.signals, Sig("BUY", "STRONG", "Golden Cross"))
    /\ HasSignal(sc_out.signals, Sig("BUY", "STRONG", "EMA alignment up"))


\* a returned amount (cents) is x (thousandths) rounded to the cent
IsRounded(v, x) == \E tie \in Ties : v = RoundCents(x, tie)

\* the entry / exit numbers of an action at a price with an ATR (thousandths)
LevelsAt(out, price, atr) ==
    IF out.action \in {"BUY", "ACCUMULATE"}
    THEN /\ out.entry_zone.present
         /\ IsRounded(out.entry_zone.low, (price * 99) \div 100)
         /\ IsRounded(out.entry_zone.high, (price * 1005) \div 1000)
         /\ out.stop_loss.present
         /\ IsRounded(out.stop_loss.v, price - 2 * atr)
         /\ Len(out.targets) = 2
         /\ IsRounded(out.targets[1], price + (5 * atr) \div 2)
         /\ IsRounded(out.targets[2], price + 4 * atr)
    ELSE IF out.action \in {"REDUCE", "SELL"}
    THEN /\ ~out.entry_zone.present
         /\ out.targets = <<>>
         /\ out.stop_loss.present
         /\ IsRounded(out.stop_loss.v, price + (3 * atr) \div 2)
    ELSE /\ ~out.entry_zone.present /\ ~out.stop_loss.present /\ out.targets = <<>>

\* C19: the entry zone, stop loss and targets of a recommendation are fixed by
\* its action and the current price given to the call: BUY / ACCUMULATE
\* (price*0.99, price*1.005), price - 2*ATR, [price + 2.5*ATR, price + 4*ATR];
\* REDUCE / SELL no entry zone, no targets, price + 1.5*ATR; HOLD / WAIT nothing.
C19_LevelsFromPrice ==
    (rec_out.done /\ Len(rec_in.rows) >= 5 /\ LastRow(rec_in).ATR > 0) =>
        LevelsAt(rec_out, rec_in.current_price, LastRow(rec_in).ATR)

\* what holds: the same numbers measured from the last close of the frame
C19_LevelsFromClose ==
    (rec_out.done /\ Len(rec_in.rows) >= 5 /\ LastRow(rec_in).ATR > 0) =>
        LevelsAt(rec_out, 1000 * LastRow(rec_in).Close, LastRow(rec_in).ATR)

\* a BUY for a quote one baht above the last close, with the stop loss two ATR
\* below the last close
C19_WitnessQuote ==
    /\ rec_out.done /\ Len(rec_in.rows) >= 5
    /\ rec_out.action = "BUY"
    /\ LastRow(rec_in).ATR > 0
    /\ rec_in.current_price = 1000 * LastRow(rec_in).Close + 1000
    /\ LastRow(rec_in).ATR = 2000
    /\ rec_out.stop_loss.v = 100 * LastRow(rec_in).Close - 400

C19_WitnessSell ==
    /\ rec_out.done /\ rec_out.action = "SELL" /\ LastRow(rec_in).ATR > 0
    /\ rec_out.stop_loss.present /\ ~rec_out.entry_zone.present /\ rec_out.targets = <<>>


IsPrefix(p, list) == Len(p) <= Len(list) /\ p = SubSeq(list, 1, Len(p))

Has(list, item) == \E i \in 1..Len(list) : list[i] = item

\* C20: for a frame of at least 5 bars the returned reasons are at most 5 and
\* the cautions at most 3, each a prefix of the items in append order, and the
\* reasons contain the note of the regime.
C20_Rationale ==
    (rec_out.done /\ Len(rec_in.rows) >= 5) =>
        /\ Len(rec_out.reasons) <= 5
        /\ Len(rec_out.cautions) <= 3
        /\ \E tie \in Ties :
              /\ IsPrefix(rec_out.reasons, AllReasons(rec_in, rec_out.action, tie))
              /\ IsPrefix(rec_out.cautions, AllCautions(rec_in, rec_out.action, tie))
        /\ rec_in.regime \in {"BULL_TREND", "BEAR_TREND", "SIDEWAYS", "TRANSITION"} =>
              Has(rec_out.reasons, NoteText(rec_in.regime))

\* six reasons were appended (four of the BUY branch, the note, the R:R item)
\* and the five returned end with the note
C20_Witness ==
    /\ rec_out.done /\ rec_out.action = "BUY"
    /\ \E tie \in Ties : Len(AllReasons(rec_in, "BUY", tie)) = 6
    /\ Len(rec_out.reasons) = 5
    /\ rec_out.reasons[5] = NoteText(rec_in.regime)

\* four reasons of the ACCUMULATE branch followed by the note
C20_WitnessAccumulate ==
    /\ rec_out.done /\ rec_out.action = "ACCUMULATE"
    /\ Len(rec_out.reasons) = 5
    /\ rec_out.reasons[5] = NoteText(rec_in.regime)

\* three cautions returned
C20_WitnessCautions == rec_out.done /\ Len(rec_in.rows) >= 5 /\ Len(rec_out.cautions) = 3

\* ---- fib score ------------------------------------------------------------
\* scanner.py _scan_one lines 117-122, 155-191 and _scan_intraday lines 592-596,
\* 623-642.  in = [intraday, zone_index, dist_nearest (hundredths of a percent),
\* score, vol_col (tenths), rsi_col]; the score is summed in hundredths of a
\* point.

\* lines 117-122: the loop over [rsi, atr, vol_ratio] rebinds its own variable
\* only, so a NaN stays NaN; lines 592-596 replace it
ColumnValue(col, default, intraday) ==
    IF col.missing THEN Num(default)
    ELSE IF col.nan /\ intraday THEN Num(default)
    ELSE col

\* A) zone quality
ZoneQuality(k) ==
    IF k = 0 THEN 0
    ELSE IF 382 <= ZoneRatio(k) /\ ZoneRatio(k) <= 618 THEN 35
    ELSE IF 236 <= ZoneRatio(k) /\ ZoneRatio(k) <= 786 THEN 18 ELSE 0

\* B) max(0.0, 30.0 - dist_nearest * 3.0), in hundredths
Proximity(dist) == Max2(0, 3000 - 3 * dist)

\* C) (score / 100.0) * 20.0, in hundredths
Technical(score) == 20 * score

\* D) volume confirmation; every comparison with NaN is False
VolumePoints(vol) ==
    IF vol.nan THEN 0
    ELSE IF vol.v >= 20 THEN 10 ELSE IF vol.v >= 15 THEN 7 ELSE IF vol.v >= 10 THEN 4 ELSE 0

\* E) RSI bonus of _scan_intraday (lines 633-634)
RsiPointsIntraday(rsi) ==
    IF rsi.nan THEN 0
    ELSE IF 30 <= rsi.v /\ rsi.v <= 60 THEN 5 ELSE IF rsi.v < 30 THEN 4 ELSE 0

\* E) RSI bonus of _scan_one (lines 177-180)
RsiPoints(rsi) ==
    IF rsi.nan THEN 0
    ELSE IF 30 <= rsi.v /\ rsi.v <= 60 THEN 5
    ELSE IF rsi.v < 30 THEN 4
    ELSE IF rsi.v <= 70 THEN 2 ELSE 0

\* the five components of a call
FibParts(in) ==
    LET rsi == ColumnValue(in.rsi_col, 50, in.intraday)
        vol == ColumnValue(in.vol_col, 10, in.intraday)
    IN [zone |-> ZoneQuality(in.zone_index),
        prox |-> Proximity(in.dist_nearest),
        tech |-> Technical(in.score),
        volume |-> VolumePoints(vol),
        rsi |-> IF in.intraday THEN RsiPointsIntraday(rsi) ELSE RsiPoints(rsi)]

\* lines 156-191 / 624-642: fib_score (tenths) and grade
FibScore(in, tie) ==
    LET c == FibParts(in)
        total == 100 * c.zone + c.prox + c.tech + 100 * c.volume + 100 * c.rsi
        fib_score == Min2(1000, Round1(total, 10, tie))
    IN [fib_score |-> fib_score, grade |-> Grade(fib_score)]

FibRsiCols == {NoColumn, NaN, Num(25), Num(30), Num(60), Num(65), Num(70), Num(75)}
FibVolCols == {NoColumn, NaN, Num(5), Num(10), Num(15), Num(20)}
FibDists   == {0, 55, 333, 1000, 1500}
FibSignalScores == {0, 33, 50, 100}

FibInputs ==
    [done : {TRUE}, intraday : BOOLEAN, zone_index : 0..6, dist_nearest : FibDists,
     score : FibSignalScores, vol_col : FibVolCols, rsi_col : FibRsiCols]

InitFib ==
    /\ mode = "fib"
    /\ fib_in \in FibInputs
    /\ fib_out = NotCalled
    /\ IdleScore /\ IdleRec /\ IdleScan /\ IdleBT /\ IdleStop /\ IdleTg /\ IdleMtf /\ IdleBell /\ IdlePat

CallFibScore ==
    /\ mode = "fib"
    /\ ~fib_out.done
    /\ \E tie \in Ties : fib_out' = [done |-> TRUE] @@ FibScore(fib_in, tie)
    /\ UNCHANGED fib_in
    /\ KeepExceptFib

NextFib == CallFibScore

SpecFib == InitFib /\ [][NextFib]_vars

\* the threshold function of the grades
GradeOf(fib_score) ==
    IF fib_score >= 750 THEN "A+"
    ELSE IF fib_score >= 650 THEN "A"
    ELSE IF fib_score >= 550 THEN "B+"
    ELSE IF fib_score >= 450 THEN "B" ELSE "C"

\* C21: the single-timeframe fib_score is the sum (to one decimal) of zone
\* quality in {0, 18, 35}, proximity max(0, 30 - 3 * distance), signal score / 5,
\* volume points in {0, 4, 7, 10} and RSI bonus in {0, 2, 4, 5}; it lies in
\* [0, 100] and the grade is A+ from 75, A from 65, B+ from 55, B from 45, else C.
C21_FibScore ==
    (fib_out.done /\ ~fib_in.intraday) =>
        \E zq \in {0, 18, 35}, vp \in {0, 4, 7, 10}, rb \in {0, 2, 4, 5}, tie \in Ties :
            /\ fib_out.fib_score =
                  Round1(100 * zq + Max2(0, 3000 - 3 * fib_in.dist_nearest)
                         + 20 * fib_in.score + 100 * vp + 100 * rb, 10, tie)
            /\ zq = 35 <=> fib_in.zone_index \in {3, 4}
            /\ zq = 18 <=> fib_in.zone_index \in {2, 5}
            /\ 0 <= fib_out.fib_score /\ fib_out.fib_score <= 1000
            /\ fib_out.grade = GradeOf(fib_out.fib_score)

\* every component at its cap: 100.0 and A+
C21_Witness ==
    /\ fib_out.done /\ ~fib_in.intraday
    /\ fib_in.zone_index = 3 /\ fib_in.dist_nearest = 0 /\ fib_in.score = 100
    /\ fib_in.vol_col = Num(20) /\ fib_in.rsi_col = Num(30)
    /\ fib_out.fib_score = 1000 /\ fib_out.grade = "A+"

\* a score of exactly 75.0
C21_WitnessThreshold ==
    fib_out.done /\ ~fib_in.intraday /\ fib_out.fib_score = 750 /\ fib_out.grade = "A+"

\* C26: for the same zone, distance, signal score, volume ratio and RSI the
\* intraday scanner and the single-timeframe scanner give the same fib_score and
\* the same grade.
C26_SamePipeline ==
    (fib_out.done /\ ~fib_in.rsi_col.missing /\ ~fib_in.rsi_col.nan
                  /\ ~fib_in.vol_col.missing /\ ~fib_in.vol_col.nan) =>
        \E tie \in Ties :
            FibScore([fib_in EXCEPT !.intraday = ~fib_in.intraday], tie)
                = [fib_score |-> fib_out.fib_score, grade |-> fib_out.grade]

\* what holds: the same whenever RSI is at most 60 or above 70
C26_SameOutsideBand ==
    (fib_out.done /\ ~fib_in.rsi_col.missing /\ ~fib_in.rsi_col.nan
                  /\ ~fib_in.vol_col.missing /\ ~fib_in.vol_col.nan
                  /\ (fib_in.rsi_col.v <= 60 \/ fib_in.rsi_col.v > 70)) =>
        \E tie \in Ties :
            FibScore([fib_in EXCEPT !.intraday = ~fib_in.intraday], tie)
                = [fib_score |-> fib_out.fib_score, grade |-> fib_out.grade]

\* golden zone, price on the level, signal score 50, volume ratio 1.0, RSI 65:
\* 79.0 in the intraday scanner, 81.0 in the single-timeframe scanner
C26_WitnessDiffer ==
    /\ fib_out.done /\ fib_in.intraday
    /\ fib_in.zone_index = 3 /\ fib_in.dist_nearest = 0 /\ fib_in.score = 50
    /\ fib_in.vol_col = Num(10) /\ fib_in.rsi_col = Num(65)
    /\ fib_out.fib_score = 790
    /\ FibScore([fib_in EXCEPT !.intraday = FALSE], 0).fib_score = 810

(***************************************************************************)
(* candle_analysis.py: analyze_bell_curve                                  *)
(*                                                                         *)
(* The frame is given as runs of equal closes, oldest first: a run         *)
(* [c |-> Num(100), k |-> 19] is 19 consecutive bars closing at 100, a run *)
(* with c = NaN bars without a close.  The statistics are exact:           *)
(* with n closes in the window, sum S and sum of squares Q,                *)
(* n*(current - mean) = n*current - S and n*(n-1)*std^2 = n*Q - S^2, so    *)
(* z^2 = (n*current - S)^2 * (n-1) / (n * (n*Q - S^2)).                    *)
(* reversion_prob is kept in hundredths (8500 = 85.0).                     *)
(***************************************************************************)
RECURSIVE RunCount(_)
RunCount(runs) ==
    IF runs = <<>> THEN 0 ELSE Head(runs).k + RunCount(Tail(runs))

\* df['Close'].dropna()
DropNa(runs) == SelectSeq(runs, LAMBDA r : ~r.c.nan /\ r.k > 0)

\* closes.iloc[-n:]
RECURSIVE TakeLast(_, _)
TakeLast(runs, n) ==
    IF runs = <<>> \/ n = 0 THEN <<>>
    ELSE LET last == runs[Len(runs)]
             front == SubSeq(runs, 1, Len(runs) - 1)
         IN IF last.k >= n THEN <<[last EXCEPT !.k = n]>>
            ELSE TakeLast(front, n - last.k) \o <<last>>

RECURSIVE RunSum(_)
RunSum(runs) ==
    IF runs = <<>> THEN 0 ELSE Head(runs).k * Head(runs).c.v + RunSum(Tail(runs))

RECURSIVE RunSumSq(_)
RunSumSq(runs) ==
    IF runs = <<>> THEN 0
    ELSE Head(runs).k * Head(runs).c.v * Head(runs).c.v + RunSumSq(Tail(runs))

\* abs_z > a/2, for the exact z of a window that is not constant
AbsZAbove(z, a) == 4 * z.num > a * a * z.den

\* lines 404-425; rev_prob in hundredths of 1 (85 = 0.85); every test on a NaN
\* abs_z is False
RegimeOf(z) ==
    IF z.nan THEN [rev_prob |-> 35, regime |-> "COMPRESSED"]
    ELSE IF AbsZAbove(z, 5) THEN [rev_prob |-> 85, regime |-> "STRETCHED_EXTREME"]
    ELSE IF AbsZAbove(z, 4) THEN [rev_prob |-> 75, regime |-> "STRETCHED_HIGH"]
    ELSE IF AbsZAbove(z, 3) THEN [rev_prob |-> 62, regime |-> "STRETCHED"]
    ELSE IF AbsZAbove(z, 2) THEN [rev_prob |-> 48, regime |-> "NORMAL"]
    ELSE [rev_prob |-> 35, regime |-> "COMPRESSED"]

BellEmpty == [done |-> TRUE, kind |-> "empty"]
BellError == [done |-> TRUE, kind |-> "IndexError"]

\* z^2 as the fraction num/den with the sign of z
ZScore(neg, num, den) == [nan |-> FALSE, neg |-> neg, num |-> num, den |-> den]
ZNaN == [nan |-> TRUE, neg |-> FALSE, num |-> 0, den |-> 1]

BellDict(n, z) ==
    LET r == RegimeOf(z)
    IN [done |-> TRUE, kind |-> "dict", window |-> n, z |-> z,
        regime |-> r.regime,
        reversion_prob |-> 100 * r.rev_prob]   \* round(rev_prob * 100, 1)

\* analyze_bell_curve(df, window).  `err` is the rounding error of
\* recent.mean() in units of the last place: for a window of n equal closes c
\* the float sum of the n values divided by n need not be c (20 closes of 1.05
\* give 1.0500000000000003), and then std = |mean - c| * sqrt(n/(n-1)) is not 0.
analyze_bell_curve(in, err) ==
    IF RunCount(in.runs) < 20 THEN BellEmpty
    ELSE
    LET closes  == DropNa(in.runs)
        n       == Min2(in.window, RunCount(closes))
        recent  == TakeLast(closes, n)
        current == recent[Len(recent)].c.v
        S       == RunSum(recent)
        Q       == RunSumSq(recent)
        dev     == n * current - S
        D       == n * Q - S * S
    IN IF closes = <<>> THEN BellError            \* recent.iloc[-1] of an empty Series
       ELSE IF n = 1 THEN BellDict(n, ZNaN)       \* std of one value is NaN
       ELSE IF D = 0 THEN
            IF err = 0 THEN BellEmpty             \* std == 0
            ELSE BellDict(n, ZScore(err > 0, n - 1, n))
       ELSE BellDict(n, ZScore(dev < 0, dev * dev * (n - 1), n * D))

BellCloses  == {NaN, Num(100), Num(101), Num(110)}
RunLengths  == {0, 1, 3, 7, 16, 19}
BellWindows == {20, 60}
BellRun     == [c : BellCloses, k : RunLengths]
BellInputs  == [done : {TRUE}, runs : [1..3 -> BellRun], window : BellWindows]

KeepExceptBell == UNCHANGED <<mode, scoreVars, recVars, scanVars, btVars, stopVars, tgVars, mtfVars, fibVars, patVars>>

InitBell ==
    /\ mode = "bell"
    /\ bell_in \in BellInputs
    /\ bell_out = NotCalled
    /\ IdleScore /\ IdleRec /\ IdleScan /\ IdleBT /\ IdleStop /\ IdleTg /\ IdleMtf /\ IdleFib /\ IdlePat

CallBellCurve ==
    /\ mode = "bell"
    /\ ~bell_out.done
    /\ \E err \in FloatErrs : bell_out' = analyze_bell_curve(bell_in, err)
    /\ UNCHANGED bell_in
    /\ KeepExceptBell

NextBell == CallBellCurve

SpecBell == InitBell /\ [][NextBell]_vars

\* the window the call analyses
BellRecent == TakeLast(DropNa(bell_in.runs), Min2(bell_in.window, RunCount(DropNa(bell_in.runs))))
BellValues == {BellRecent[i].c.v : i \in 1..Len(BellRecent)}
BellConstant == Cardinality(BellValues) = 1
BellShort == RunCount(bell_in.runs) < 20

\* the table of the regimes on z^2 = num/den, reversion probability in hundredths
\* of a percent as the call returns it (unit = 1 for the fraction 0.85 -> 85,
\* unit = 100 for the percentage 85.0 -> 8500)
BellTable(out, unit) ==
    LET above(a) == 4 * out.z.num > a * a * out.z.den
    IN /\ above(5) => out.regime = "STRETCHED_EXTREME" /\ out.reversion_prob = 85 * unit
       /\ (above(4) /\ ~above(5)) => out.regime = "STRETCHED_HIGH" /\ out.reversion_prob = 75 * unit
       /\ (above(3) /\ ~above(4)) => out.regime = "STRETCHED" /\ out.reversion_prob = 62 * unit
       /\ (above(2) /\ ~above(3)) => out.regime = "NORMAL" /\ out.reversion_prob = 48 * unit
       /\ ~above(2) => out.regime = "COMPRESSED" /\ out.reversion_prob = 35 * unit

\* C22: analyze_bell_curve returns empty when the frame has fewer than 20 bars
\* or the closes of the window are constant; otherwise it returns the regime and
\* the reversion probability of the table: |z| > 2.5 STRETCHED_EXTREME 0.85,
\* > 2.0 STRETCHED_HIGH 0.75, > 1.5 STRETCHED 0.62, > 1.0 NORMAL 0.48,
\* else COMPRESSED 0.35.
C22_BellCurve ==
    bell_out.done =>
        IF BellShort \/ BellConstant THEN bell_out.kind = "empty"
        ELSE bell_out.kind = "dict" /\ BellTable(bell_out, 1)

\* what holds: a frame of fewer than 20 bars returns empty, and a window with
\* at least two different closes returns the regime of the table with the
\* probability as a percentage (85.0, 75.0, 62.0, 48.0, 35.0)
C22_TableInPercent ==
    bell_out.done =>
        /\ BellShort => bell_out.kind = "empty"
        /\ (~BellShort /\ Cardinality(BellValues) >= 2) =>
               bell_out.kind = "dict" /\ ~bell_out.z.nan /\ BellTable(bell_out, 100)

\* 20 bars closing at the same price, returned as a COMPRESSED regime
C22_WitnessFlat ==
    /\ bell_out.done /\ ~BellShort /\ BellConstant
    /\ RunCount(BellRecent) >= 20
    /\ bell_out.kind = "dict" /\ bell_out.regime = "COMPRESSED"

\* 17 bars at 100 then 3 at 110: z^2 = 5.38, STRETCHED_HIGH, returned as 75.0
C22_WitnessPercent ==
    /\ bell_out.done /\ bell_out.kind = "dict"
    /\ bell_out.regime = "STRETCHED_HIGH" /\ bell_out.reversion_prob = 7500

(***************************************************************************)
(* candle_analysis.py: detect_patterns_full                                *)
(*                                                                         *)
(* A frame is a sequence of candles (oldest first) with integer prices.    *)
(* Every bar but the last has volume 10; the volume of the last bar is     *)
(* vol0, or the frame has no Volume column.  Averages are compared by      *)
(* cross-multiplication.  int(x) of a float x that is mathematically a     *)
(* positive integer q may be q or q - 1 ((0.7 - 0.6) * 100 is              *)
(* 9.999999999999998): `ulp` is that choice.                               *)
(***************************************************************************)
candle_range(c) == c.High - c.Low                 \* _range, where it is not 1e-9

\* _body_pct(c) > num/den and < num/den, with _range(c) = 1e-9 for a flat bar
BodyPctAbove(c, num, den) ==
    IF candle_range(c) > 0 THEN den * body(c) > num * candle_range(c) ELSE body(c) > 0
BodyPctBelow(c, num, den) ==
    IF candle_range(c) > 0 THEN den * body(c) < num * candle_range(c) ELSE body(c) = 0

TruncInt(num, den, ulp) ==
    IF num % den = 0 /\ num \div den >= 1 THEN (num \div den) - ulp ELSE num \div den

RECURSIVE SumBody(_)
SumBody(cs) == IF cs = <<>> THEN 0 ELSE body(Head(cs)) + SumBody(Tail(cs))

RECURSIVE SumRange(_)
SumRange(cs) == IF cs = <<>> THEN 0 ELSE candle_range(Head(cs)) + SumRange(Tail(cs))

RECURSIVE SumClose(_)
SumClose(cs) == IF cs = <<>> THEN 0 ELSE Head(cs).Close + SumClose(Tail(cs))

\* recent = df.iloc[-20:] if len(df) >= 20 else df
Recent20(cs) == IF Len(cs) >= 20 THEN SubSeq(cs, Len(cs) - 19, Len(cs)) ELSE cs

\* x > avg_body * num/den, avg_range likewise
AboveAvgBody(cs, x, num, den) ==
    den * Len(Recent20(cs)) * x > num * SumBody(Recent20(cs))
AboveAvgRange(cs, x, num, den) ==
    den * Len(Recent20(cs)) * x > num * SumRange(Recent20(cs))

\* vol0 > avg_vol * tenths/10; without a Volume column avg_vol = 1 and vol0 = avg_vol
VolAbove(f, tenths) ==
    LET n == Min2(20, Len(f.candles))
    IN IF f.vol0.missing THEN FALSE
       ELSE 10 * n * f.vol0.v > tenths * (10 * (n - 1) + f.vol0.v)

get_candle(f, i) == f.candles[Len(f.candles) - i]

Found(name, type, conf) == <<[pattern |-> name, type |-> type, confidence |-> conf]>>

\* the k-th rule of detect_patterns_full: <<>> or the one dict it appends
PatternRule(k, f, ulp) ==
    LET cs == f.candles
        c0 == get_candle(f, 0)
        c1 == get_candle(f, 1)
        c2 == get_candle(f, 2)
        long  == AboveAvgBody(cs, body(c0), 3, 2) /\ BodyPctAbove(c0, 6, 10)
        lconf == LET base == Min2(100, 60 + TruncInt(100 * body(c0) - 60 * candle_range(c0),
                                                    candle_range(c0), ulp))
                 IN IF VolAbove(f, 12) THEN Min2(100, base + 15) ELSE base
        econf == LET base == Min2(100, 65 + TruncInt(20 * (body(c0) - body(c1)), body(c1), ulp))
                 IN IF VolAbove(f, 13) THEN Min2(100, base + 10) ELSE base
        sconf == Min2(100, 75 + (IF VolAbove(f, 10) THEN 10 ELSE 0))
        lw == lower_wick(c0)
        uw == upper_wick(c0)
        b  == body(c0)
    IN CASE k = 1 -> IF is_bull(c0) /\ long THEN Found("Long Green Candle", "BUY", lconf) ELSE <<>>
         [] k = 2 -> IF is_bear(c0) /\ long THEN Found("Long Red Candle", "SELL", lconf) ELSE <<>>
         [] k = 3 -> IF lw > b * 2 /\ 2 * uw < b /\ BodyPctBelow(c0, 35, 100)
                     THEN Found("Hammer", "BUY",
                                Min2(100, 55 + (IF c1.Close < c1.Open THEN 20 ELSE 0)
                                             + (IF is_bull(c0) THEN 10 ELSE 0)))
                     ELSE <<>>
         [] k = 4 -> IF uw > b * 2 /\ 2 * lw < b /\ BodyPctBelow(c0, 35, 100)
                     THEN Found("Shooting Star", "SELL",
                                Min2(100, 55 + (IF c1.Close > c1.Open THEN 20 ELSE 0)
                                             + (IF is_bear(c0) THEN 10 ELSE 0)))
                     ELSE <<>>
         [] k = 5 -> IF uw > b * 2 /\ 2 * lw < b /\ is_bear(c1)
                     THEN Found("Inverted Hammer", "BUY", 50) ELSE <<>>
         [] k = 6 -> IF is_bear(c1) /\ is_bull(c0) /\ c0.Open <= c1.Close /\ c0.Close >= c1.Open
                     THEN Found("Bullish Engulfing", "BUY", econf) ELSE <<>>
         [] k = 7 -> IF is_bull(c1) /\ is_bear(c0) /\ c0.Open >= c1.Close /\ c0.Close <= c1.Open
                     THEN Found("Bearish Engulfing", "SELL", econf) ELSE <<>>
         [] k = 8 -> IF is_bear(c2) /\ 100 * body(c1) < 35 * body(c2) /\ is_bull(c0)
                        /\ 2 * c0.Close > c2.Open + c2.Close
                     THEN Found("Morning Star", "BUY", sconf) ELSE <<>>
         [] k = 9 -> IF is_bull(c2) /\ 100 * body(c1) < 35 * body(c2) /\ is_bear(c0)
                        /\ 2 * c0.Close < c2.Open + c2.Close
                     THEN Found("Evening Star", "SELL", sconf) ELSE <<>>
         [] k = 10 -> IF BodyPctBelow(c0, 8, 100)
                      THEN LET after_up   == is_bull(c1) /\ AboveAvgBody(cs, body(c1), 1, 1)
                               after_down == is_bear(c1) /\ AboveAvgBody(cs, body(c1), 1, 1)
                           IN IF after_up THEN Found("Doji", "SELL", 60)
                              ELSE IF after_down THEN Found("Doji", "BUY", 60)
                              ELSE Found("Doji", "NEUTRAL", 40)
                      ELSE <<>>
         [] k = 11 -> IF is_bull(c0) /\ is_bull(c1) /\ is_bull(c2)
                         /\ AboveAvgBody(cs, body(c0), 8, 10) /\ AboveAvgBody(cs, body(c1), 8, 10)
                         /\ c0.Close > c1.Close /\ c1.Close > c2.Close
                      THEN Found("Three White Soldiers", "BUY", 82) ELSE <<>>
         [] k = 12 -> IF is_bear(c0) /\ is_bear(c1) /\ is_bear(c2)
                         /\ AboveAvgBody(cs, body(c0), 8, 10) /\ AboveAvgBody(cs, body(c1), 8, 10)
                         /\ c0.Close < c1.Close /\ c1.Close < c2.Close
                      THEN Found("Three Black Crows", "SELL", 82) ELSE <<>>
         [] k = 13 -> IF 2 * uw > 5 * b /\ AboveAvgRange(cs, uw, 4, 10) /\ Len(cs) >= 6
                         /\ 5 * c0.Close > SumClose(SubSeq(cs, Len(cs) - 5, Len(cs) - 1))
                      THEN Found("Long Upper Shadow", "SELL", 58) ELSE <<>>
         [] k = 14 -> IF 1000 * Abs(c0.High - c1.High) < 3 * c1.High /\ is_bull(c1) /\ is_bear(c0)
                      THEN Found("Tweezer Top", "SELL", 65) ELSE <<>>
         [] k = 15 -> IF 1000 * Abs(c0.Low - c1.Low) < 3 * c1.Low /\ is_bear(c1) /\ is_bull(c0)
                      THEN Found("Tweezer Bottom", "BUY", 65) ELSE <<>>

PatternRules == 1..15

RECURSIVE AppendRules(_, _, _)
AppendRules(k, f, ulp) ==
    IF k > 15 THEN <<>> ELSE PatternRule(k, f, ulp) \o AppendRules(k + 1, f, ulp)

\* index of the first entry of the highest confidence
HighestIdx(ps) ==
    CHOOSE i \in 1..Len(ps) :
        /\ \A j \in 1..Len(ps) : ps[j].confidence <= ps[i].confidence
        /\ \A j \in 1..(i - 1) : ps[j].confidence < ps[i].confidence

\* variant: the list as the rules appended it
SortByConfidence_Unsorted(ps) == ps

\* sorted(results, key=lambda x: x['confidence'], reverse=True): stable
RECURSIVE SortByConfidence(_)
SortByConfidence(ps) ==
    IF ps = <<>> THEN <<>>
    ELSE LET k == HighestIdx(ps)
         IN <<ps[k]>> \o SortByConfidence(Remove(ps, k))

detect_patterns_full(f, ulp) ==
    IF Len(f.candles) < 3 THEN <<>>
    ELSE SortByConfidence(AppendRules(1, f, ulp))

Ohlc(o, h, l, c) == [Open |-> o, High |-> h, Low |-> l, Close |-> c]

LongGreen   == Ohlc(100, 112, 99, 111)
Marubozu    == Ohlc(106, 117, 106, 117)
LongRed     == Ohlc(111, 112, 99, 100)
LowRed      == Ohlc(105, 106, 93, 94)
HammerBar   == Ohlc(108, 109, 100, 109)
StarBar     == Ohlc(101, 109, 100, 100)
DojiBar     == Ohlc(100, 105, 95, 100)
FlatBar     == Ohlc(100, 100, 100, 100)
SmallRed    == Ohlc(116, 119, 113, 114)

Bars        == {LongGreen, Marubozu, LongRed, LowRed, HammerBar, StarBar, DojiBar,
                FlatBar, SmallRed}
OlderBars   == {DojiBar, LongGreen}
PatVolumes  == {NoColumn, Num(10), Num(20)}

KeepExceptPat == UNCHANGED <<mode, scoreVars, recVars, scanVars, btVars, stopVars, tgVars, mtfVars, fibVars, bellVars>>

InitPat ==
    /\ mode = "patterns"
    /\ \E v \in PatVolumes :
         \/ \E f \in {<<>>} \cup [1..2 -> Bars] \cup [1..3 -> Bars] :
                pat_in = [done |-> TRUE, candles |-> f, vol0 |-> v]
         \/ \E older \in [1..3 -> OlderBars], last \in [1..3 -> Bars] :
                pat_in = [done |-> TRUE, candles |-> older \o last, vol0 |-> v]
    /\ pat_out = NotCalled
    /\ IdleScore /\ IdleRec /\ IdleScan /\ IdleBT /\ IdleStop /\ IdleTg /\ IdleMtf /\ IdleFib /\ IdleBell

CallDetectPatterns ==
    /\ mode = "patterns"
    /\ ~pat_out.done
    /\ \E ulp \in Ties :
           pat_out' = [done |-> TRUE, patterns |-> detect_patterns_full(pat_in, ulp)]
    /\ UNCHANGED pat_in
    /\ KeepExceptPat

NextPat == CallDetectPatterns

SpecPat == InitPat /\ [][NextPat]_vars

\* the rules whose condition holds on the frame of the call
MatchingRules == {k \in PatternRules : \E ulp \in Ties : PatternRule(k, pat_in, ulp) # <<>>}
NamesOf(k) == {PatternRule(k, pat_in, ulp)[1].pattern : ulp \in Ties}

\* C23: the returned patterns are in non-increasing order of confidence, every
\* confidence is an integer in [0,100], every matching rule is reported once
\* (nothing is merged or dropped), and a frame of fewer than 3 bars gives the
\* empty list.
C23_Patterns ==
    pat_out.done =>
        LET ps == pat_out.patterns
        IN /\ \A i \in 1..Len(ps) : \A j \in i..Len(ps) :
                  ps[i].confidence >= ps[j].confidence
           /\ \A i \in 1..Len(ps) : ps[i].confidence \in 0..100
           /\ Len(pat_in.candles) < 3 => ps = <<>>
           /\ Len(pat_in.candles) >= 3 =>
                  /\ Len(ps) = Cardinality(MatchingRules)
                  /\ \A k \in MatchingRules :
                         \E i \in 1..Len(ps) : ps[i].pattern \in NamesOf(k)

\* a long red bar after a long green one: two SELL readings of the same bar pair
\* (Bearish Engulfing, Tweezer Top) are both returned, below the Long Red Candle
C23_Witness ==
    /\ pat_out.done /\ Len(pat_out.patterns) >= 3
    /\ \E i, j \in 1..Len(pat_out.patterns) :
           /\ i < j
           /\ pat_out.patterns[i].confidence > pat_out.patterns[j].confidence
           /\ pat_out.patterns[i].type = pat_out.patterns[j].type
    /\ AppendRules(1, pat_in, 0) # pat_out.patterns
    /\ AppendRules(1, pat_in, 1) # pat_out.patterns

\* a confidence that the cap of 100 cut
C23_WitnessCap ==
    /\ pat_out.done
    /\ \E i \in 1..Len(pat_out.patterns) : pat_out.patterns[i].confidence = 100

\* two bars only
C23_WitnessShort ==
    /\ pat_out.done /\ Len(pat_in.candles) = 2 /\ pat_out.patterns = <<>>

\* distance of a level from the price find_support_resistance measures from
\* (the last close of the frame)
LevelDistance(x) == Abs(x - tg_in.last_close)
NearestFirst(levels) ==
    \A i \in 1..Len(levels) : \A j \in i..Len(levels) :
        LevelDistance(levels[i]) <= LevelDistance(levels[j])
WithinTwoPercent(x) ==
    100 * x >= 98 * tg_in.last_close /\ 100 * x <= 102 * tg_in.last_close

\* C24: find_support_resistance returns at most 7 supports and at most 7
\* resistances, each list in order of increasing distance from the current
\* price, and every returned level is within 2% of the current price.
C24_Levels ==
    tg_out.done =>
        /\ Len(tg_out.support_levels) <= 7 /\ Len(tg_out.resistance_levels) <= 7
        /\ NearestFirst(tg_out.support_levels) /\ NearestFirst(tg_out.resistance_levels)
        /\ \A i \in 1..Len(tg_out.support_levels) : WithinTwoPercent(tg_out.support_levels[i])
        /\ \A i \in 1..Len(tg_out.resistance_levels) :
               WithinTwoPercent(tg_out.resistance_levels[i])

\* what holds: at most 7 of each, nearest first, supports below 102% of the
\* price and resistances above 98% of it, with no bound on the other side
C24_OneSidedFilter ==
    tg_out.done =>
        /\ Len(tg_out.support_levels) <= 7 /\ Len(tg_out.resistance_levels) <= 7
        /\ NearestFirst(tg_out.support_levels) /\ NearestFirst(tg_out.resistance_levels)
        /\ \A i \in 1..Len(tg_out.support_levels) :
               100 * tg_out.support_levels[i] < 102 * tg_in.last_close
        /\ \A i \in 1..Len(tg_out.resistance_levels) :
               100 * tg_out.resistance_levels[i] > 98 * tg_in.last_close

\* a support 5% below the price and a resistance 10% above it are returned
C24_WitnessFar ==
    /\ tg_out.done
    /\ \E i \in 1..Len(tg_out.support_levels) :
           tg_out.support_levels[i] = Pc(tg_in.last_close, 950)
    /\ \E i \in 1..Len(tg_out.resistance_levels) :
           tg_out.resistance_levels[i] = Pc(tg_in.last_close, 1100)

\* eight supports below the price: the seven nearest are returned
C24_WitnessSeven ==
    /\ tg_out.done /\ Len(tg_in.sup_levels) = 8 /\ Len(tg_out.support_levels) = 7
    /\ tg_out.support_levels[1] = Pc(tg_in.last_close, 984)

\* ---- scanner: tasks and progress --------------------------------------------
\* a step of the pool's workers: the status or the outcome of a task changes
WorkerStep == status' # status \/ outcome' # outcome

\* C25: a scan submits one task per symbol; a task is started at most once
\* (queued -> running, never back), a task that finished -- with a row, None or
\* an exception -- is never started or submitted again, and at no time do more
\* than max_workers tasks execute.
C25_TaskLifecycle ==
    /\ [](DOMAIN status = Tasks /\ NumRunning <= MaxWorkers)
    /\ [][\A i \in Tasks :
             /\ status'[i] = "queued" => status[i] = "queued"
             /\ status'[i] = "running" => status[i] \in {"queued", "running"}
             /\ status[i] = "finished" => status'[i] = "finished" /\ outcome'[i] = outcome[i]
             /\ status[i] = "hung" => status'[i] = "hung"]_vars

\* both workers busy while a task waits in the queue, after a task has failed
C25_Witness ==
    /\ NumRunning = MaxWorkers
    /\ \E i \in Tasks : status[i] = "queued"
    /\ \E i \in Tasks : status[i] = "finished" /\ outcome[i] = Raised

\* C27: the progress callback runs only in the loop of the calling thread: a
\* step that changes the counter or adds an invocation is a step of that loop
\* and of no worker, it adds exactly one invocation, and the values of
\* completed_count are 1, 2, ... in this order up to total_count, whatever the
\* order in which the tasks finish.
C27_CallerOnly ==
    /\ [](/\ done = Len(cb_calls)
          /\ done <= NumSymbols
          /\ \A k \in 1..Len(cb_calls) : cb_calls[k].completed = k
          /\ scan_pc = "returned" => done = NumSymbols)
    /\ [][(done' # done \/ cb_calls' # cb_calls) =>
             /\ ~WorkerStep
             /\ scan_pc = "loop" /\ scan_pc' = "loop"
             /\ done' = done + 1
             /\ SubSeq(cb_calls', 1, Len(cb_calls)) = cb_calls
             /\ Len(cb_calls') = Len(cb_calls) + 1]_vars

\* a returned run whose invocations name the tasks in another order than the
\* submission order
C27_Witness ==
    /\ scan_pc = "returned"
    /\ Len(cb_calls) = NumSymbols
    /\ cb_calls[1].sym = NumSymbols
    /\ cb_calls[NumSymbols].sym = 1

\* ---- multi-timeframe scan: completion order ---------------------------------
\* the row of the symbol agrees on the fields fs with the row built from the
\* same results stored in the order prs
SameRow(row, prs, fs) ==
    \E tie \in Ties :
        \A f \in fs : MergeRow(prs, mtf_args.min_fib_score, tie)[f] = row[f]

C28_ScoreIndependent ==
    mtf_pc = "returned" =>
        \A i \in 1..Len(mtf_table) :
            \A prs \in Arrangements(PeriodsOf(mtf_table[i])) :
                /\ SameRow(mtf_table[i], prs, {"mtf_score", "grade", "passed_tfs"})
                /\ (\E j \in 1..Len(prs) : prs[j].p = "6mo") =>
                       SameRow(mtf_table[i], prs,
                               BaseFields \cup {"mtf_score", "grade", "passed_tfs"})

\* the 6mo task of the symbol failed, the 3mo result was stored before the 1y
\* result, and the row carries the stop loss of the 3mo result, not of the 1y one
C28_WitnessFallback ==
    /\ mtf_pc = "returned"
    /\ \E i \in 1..Len(mtf_table) :
          LET prs == PeriodsOf(mtf_table[i])
          IN /\ Len(prs) = 2
             /\ prs[1].p = "3mo" /\ prs[2].p = "1y"
             /\ prs[1].r.stop_loss # prs[2].r.stop_loss
             /\ mtf_table[i].stop_loss = prs[1].r.stop_loss

\* ---- price targets: risk_reward --------------------------------------------
TargetRisk == tg_in.current_price - tg_out.stop_loss

C29_WitnessNegative ==
    /\ tg_out.done /\ TargetRisk < 0
    /\ tg_out.targets[1] > tg_in.current_price
    /\ tg_out.risk_reward = 0 - 1000

\* ---- backtest: a position open at the end -----------------------------------
\* the closing price of the last bar
LastClose == Bar(bt_in.rows, Len(bt_in.rows) - 1).Close

\* C30: a position still open when the bars run out is never closed: returning
\* adds no trade and leaves equity alone, a bar that leaves the position open
\* changes neither, the statistics count the logged trades only, and without a
\* closed trade total_return, win_rate and max_drawdown are 0 even when a
\* position was opened.
C30_OpenPositionIgnored ==
    /\ [][/\ bt_pc' = "returned" =>
               /\ in_position' = in_position
               /\ equity' = equity /\ trades' = trades
          /\ in_position' => equity' = equity /\ trades' = trades]_vars
    /\ [](bt_pc = "returned" =>
            /\ bt_out.total_trades = Len(trades)
            /\ \A k \in 1..Len(trades) : in_position => trades[k].entry_date # entry_date
            /\ equity = TradeProduct(Frac(bt_in.capital, 1), trades)
            /\ trades = <<>> =>
                   /\ equity = Frac(bt_in.capital, 1)
                   /\ bt_out.total_return = 0
                   /\ bt_out.win_rate = 0
                   /\ bt_out.max_drawdown = 0)

\* returned with a position opened, never closed, and the price above the entry
C30_Witness ==
    /\ bt_pc = "returned"
    /\ in_position /\ trades = <<>>
    /\ LastClose > entry_price
    /\ bt_out.total_return = 0 /\ bt_out.total_trades = 0

\* returned with one closed trade and a second position still open at a loss
C30_WitnessSecond ==
    /\ bt_pc = "returned"
    /\ in_position /\ Len(trades) = 1
    /\ LastClose < entry_price
    /\ bt_out.total_trades = 1
    /\ bt_out.max_drawdown <= 0

====
